---- MODULE Spec2Model ----
(***************************************************************************)
(* A model of the peer-to-peer media negotiation core of the watch-party   *)
(* client.  The repository holds several hooks that implement the core;    *)
(* each one is modelled by its own group of variables and actions and has  *)
(* its own specification:                                                  *)
(*                                                                         *)
(*   SpecPN    src/modules/video/index.ts (useWebRTC, Perfect Negotiation) *)
(*             two clients of one room and the signaling relay between     *)
(*             them.                                                       *)
(*   SpecRC    src/modules/video/useWebRTC.ts (useWebRTC, SFU client):     *)
(*             transport failures, exponential backoff, ICE restart.       *)
(*   SpecIceOverflow, SpecIce                                              *)
(*             src/modules/video/useWebRTC.ts: the buffer of remote ICE    *)
(*             candidates while no remote description is set, and the      *)
(*             order in which candidates are applied around one.           *)
(*   SpecMedia src/modules/video/useWebRTC.ts: the media controls          *)
(*             (camera on and off, mute) and the renegotiation that        *)
(*             pc.onnegotiationneeded runs with the SFU.                   *)
(*   SpecMesh  src/modules/video/useWebRTC-P2P.ts (useSimplePeer): one     *)
(*             client of the mesh, its links to the other users of the     *)
(*             room and the roster that changes under it.                  *)
(*   SpecGather                                                            *)
(*             src/modules/video/useWebRTC.ts: waitForIceGathering, the    *)
(*             wait for ICE gathering before an offer is sent, with time.  *)
(*   SpecWs    the WebSocketClient: the callbacks registered with        *)
(*             onMessage and onDisconnect and the catch-all listener.      *)
(*   SpecTabs  the MultiTabGuard: the tabs of one browser that open the    *)
(*             same room and the BroadcastChannel between them.            *)
(*   SpecPolite                                                            *)
(*             src/modules/video/index.ts: SpecPN with a roster that       *)
(*             changes and startConnection called again.                   *)
(*   SpecSfu   src/modules/video/useWebRTC.ts: the offers the client       *)
(*             creates, the offers and answers of the SFU and its          *)
(*             candidates, running concurrently on one connection.         *)
(*   SpecTrack SpecRC with the remote track event (pc.ontrack).            *)
(*   SpecWsDispatch                                                        *)
(*             SpecWs with callbacks that unsubscribe during a dispatch.   *)
(*   SpecStartup                                                           *)
(*             SpecPN with every enabled step eventually taken.            *)
(*   SpecFailure                                                           *)
(*             SpecRC with an ICE restart that fails while a backoff       *)
(*             timer is pending.                                           *)
(*   SpecStop  SpecRC with stopConnection.                                 *)
(*   SpecClose SpecMesh with the 'close' event of a destroyed link as a    *)
(*             step of its own, and reconnect.                             *)
(*   SpecFlags SpecMedia with the connection started again after a stop.   *)
(*                                                                         *)
(* The browser (RTCPeerConnection, getUserMedia, the event loop) and the   *)
(* signaling server are the environment.  What the model assumes of them   *)
(* is written at the action that assumes it.                               *)
(***************************************************************************)
EXTENDS Integers, Sequences, FiniteSets, TLC

\* ------------------------------------------------------------------------
\* Bounds of the model
\* ------------------------------------------------------------------------

\* Transport failures (each calls pc.restartIce()) the environment may
\* report in SpecPN, over both clients.
MaxRestarts == 1

\* Calls of startConnection, calls of attemptIceRestart on one connection
\* and timers of reconnectWithBackoff that may be pending at once in SpecRC.
MaxInFlight == 1

\* Remote ICE candidates the signaling server delivers in SpecIceOverflow.
MaxFeed == 60

\* Remote ICE candidates the signaling server delivers in SpecIce.
MaxOrdered == 4

\* Of these, the candidates that arrive once a remote description is set.
MaxLate == 2

\* Remote descriptions (answers and offers of the SFU) delivered in SpecIce.
MaxDescriptions == 2

\* Calls of enableVideo that reach getUserMedia in SpecMedia.
MaxVideoCalls == 2

\* Calls of startConnection that wait for getUserMedia at once in SpecMesh.
MaxStarts == 2

\* 2 s timers of one connection that are pending at once in SpecRC.
MaxGrace == 2

\* The time, in ms, that SpecGather follows.
MaxTime == 8000

\* Calls of onMessage and onDisconnect in SpecWs.
MaxCallbacks == 4

\* Heartbeat intervals that pass in SpecTabs.
MaxHeartbeats == 3

\* Calls of onConflict that the history of a tab counts in SpecTabs.
MaxConflicts == 2

\* SpecSfu: calls of handleAnswer and handleIncomingOffer, candidates.
MaxSfCalls == 2
MaxSfCandidates == 2

\* ------------------------------------------------------------------------
\* Variables
\* ------------------------------------------------------------------------

VARIABLES
    \* --- SpecPN: index.ts, one entry per client -------------------------
    users,                          \* useRoom().users, the roster, a sequence of user ids
    pnStart,                        \* position of startConnection: "idle", "awaitMedia", "done"
    pnPartner,                      \* partnerId as captured by startConnection (NoUser = undefined)
    politeRef,                      \* politeRef.current
    makingOfferRef,                 \* makingOfferRef.current
    ignoreOfferRef,                 \* ignoreOfferRef.current
    isSettingRemoteAnswerPendingRef,\* isSettingRemoteAnswerPendingRef.current
    currentIceGenerationRef,        \* currentIceGenerationRef.current
    pnLocalStream,                  \* localStream !== null
    isConnecting,                   \* isConnecting
    isConnected,                    \* isConnected
    pnError,                        \* error ("none" = null)
    pnPc,                           \* peerConnectionRef.current and the state of that RTCPeerConnection
    pnOps,                          \* the RTCPeerConnection's operations chain with the awaiting continuations
    pnNet,                          \* signaling messages relayed to the client, not yet delivered
    pnHist,                         \* history: what happened to each offer, message counts
    pnFailures,                     \* history: transport failures reported so far
    \* --- SpecRC: useWebRTC.ts, one client --------------------------------
    wsAtMount,                      \* wsClient !== null in the first render (closure of reconnectWithBackoff)
    connectionState,                \* connectionState
    error,                          \* error ("none" = null)
    reconnectAttemptsRef,           \* reconnectAttemptsRef.current
    connectionAttemptedRef,         \* connectionAttemptedRef.current
    localStream,                    \* localStream !== null
    peerConnectionRef,              \* peerConnectionRef.current and the state of that RTCPeerConnection
    rcStarts,                       \* calls of startConnection that wait at an await
    rcTimers,                       \* pending timers of reconnectWithBackoff
    rcOrphans,                      \* calls of attemptIceRestart that wait on a closed connection
    rcEffectDue,                    \* the auto-reconnect effect runs after the next render
    rcHist,                         \* history: delays scheduled, the last call of reconnectWithBackoff
    \* --- SpecIce: useWebRTC.ts, one client ------------------------------
    iceCandidateBufferRef,          \* iceCandidateBufferRef.current
    icePc,                          \* peerConnectionRef.current: exists, remoteDescription !== null
    iceOps,                         \* the RTCPeerConnection's operations chain
    iceHandler,                     \* position of handleAnswer / handleIncomingOffer
    iceApplied,                     \* history: the candidates the connection applied, in order
    iceNext,                        \* history: number of the next candidate to arrive
    iceLate,                        \* history: candidates that arrived with a remote description set
    iceDescs,                       \* history: remote descriptions delivered
    \* --- SpecMedia: useWebRTC.ts, one client ----------------------------
    mdLocalStream,                  \* localStream !== null
    hasVideoTrack,                  \* hasVideoTrack
    isAudioMuted,                   \* isAudioMuted
    mdConnectionState,              \* connectionState
    mdError,                        \* error ("none" = null)
    mdRendered,                     \* the state as of the last render: what the callbacks close over
    mdTracks,                       \* the MediaStream object: its audio track's enabled flag, its video tracks
    mdPc,                           \* peerConnectionRef.current and the state of that RTCPeerConnection
    mdMakingOfferRef,               \* makingOfferRef.current
    mdNegotiation,                  \* position of the onnegotiationneeded handler
    mdCamera,                       \* calls of enableVideo that wait for getUserMedia
    mdNet,                          \* offers on their way to the SFU, answers on their way back
    mdHist,                         \* history: track changes, events and offers, counted
    \* --- SpecMesh: useWebRTC-P2P.ts (useSimplePeer), one client ---------
    msUsers,                        \* useRoom().users without the client itself: the partners
    msRendered,                     \* the state as of the last render: what the callbacks close over
    msDirty,                        \* a state update waits for the next render
    peersRef,                       \* peersRef.current: the state of each user's entry ("none" = no entry)
    remoteStreams,                  \* the keys of remoteStreams
    localStreamRef,                 \* localStreamRef.current !== null
    msConnectionState,              \* connectionState
    msError,                        \* error ("none" = null)
    msStarts,                       \* calls of startConnection that wait for getUserMedia: their partners
    msGone,                         \* history: users whose removal from the roster was processed
    msJoined,                       \* history: users that entered the roster and got no link since
    \* --- SpecGather: useWebRTC.ts, waitForIceGathering -------------------
    gaNow,                          \* the time in ms
    gaIceGatheringState,            \* pc.iceGatheringState
    gaStage,                        \* position of startConnection and of attemptIceRestart
    gaWaits,                        \* the call of waitForIceGathering of each of the two
    gaHist,                         \* history: the offer of each caller as it was sent
    gaRegathered,                   \* history: gathering began again for the ICE restart
    \* --- SpecWs: WebSocketClient (unnamed/part_014) ----------------------
    messageCallbacks,               \* this.messageCallbacks, the callbacks by the number of their registration
    disconnectCallbacks,            \* this.disconnectCallbacks, the same
    onAnyListener,                  \* this.onAnyListener !== null
    wcSocketAny,                    \* the catch-all listeners installed on the socket, counted
    wcRegistered,                   \* the calls of onMessage and onDisconnect so far: which of the two
    wcUnsubscribed,                 \* history: registrations whose unsubscribe function was called
    wcInvoked,                      \* history: the callbacks that the last event invoked
    wcLate,                         \* history: an event invoked a callback that was unsubscribed
    \* --- SpecTabs: MultiTabGuard (unnamed/part_016), one guard per tab -----
    tgChannel,                      \* this.channel of each tab: "none" (no guard yet), "open", "closed"
    isActive,                       \* this.isActive
    lastHeartbeat,                  \* this.lastHeartbeat
    tgClaimTimer,                   \* the 100 ms timer of checkForExistingTab is pending
    tgInbox,                        \* messages of the BroadcastChannel on their way to each tab
    tgNow,                          \* Date.now(), counted in heartbeat intervals
    tgConflicts,                    \* history: calls of onConflict in each tab
    tgLate,                         \* history: the tab opened the room while another tab's guard was active
    \* --- SpecSfu: useWebRTC.ts, the offers and answers of one client -------
    sfPc,                           \* peerConnectionRef.current and the state of that RTCPeerConnection
    sfMakingOfferRef,               \* makingOfferRef.current
    sfIceCandidateBufferRef,        \* iceCandidateBufferRef.current
    sfOps,                          \* the RTCPeerConnection's operations chain
    sfOfferers,                     \* position of startConnection, onnegotiationneeded, attemptIceRestart
    sfHandlers,                     \* the calls of handleAnswer and handleIncomingOffer, by their number
    sfArrived,                      \* history: candidates that arrived so far
    sfOutstanding,                  \* offers the SFU received and has not answered
    sfHist,                         \* history: candidates applied, candidates met by a handler, answers sent
    \* --- SpecClose: useWebRTC-P2P.ts, the 'close' events of destroyed links
    msClosing,                      \* users whose destroyed link has its 'close' event due
    msStaleClosed                   \* history: users for whom the 'close' of a destroyed link has run

pnVars == <<users, pnStart, pnPartner, politeRef, makingOfferRef, ignoreOfferRef,
            isSettingRemoteAnswerPendingRef, currentIceGenerationRef, pnLocalStream,
            isConnecting, isConnected, pnError, pnPc, pnOps, pnNet, pnHist, pnFailures>>

rcVars == <<wsAtMount, connectionState, error, reconnectAttemptsRef, connectionAttemptedRef,
            localStream, peerConnectionRef, rcStarts, rcTimers, rcOrphans, rcEffectDue,
            rcHist>>

iceVars == <<iceCandidateBufferRef, icePc, iceOps, iceHandler, iceApplied, iceNext, iceLate,
             iceDescs>>

mdVars == <<mdLocalStream, hasVideoTrack, isAudioMuted, mdConnectionState, mdError,
            mdRendered, mdTracks, mdPc, mdMakingOfferRef, mdNegotiation, mdCamera, mdNet,
            mdHist>>

msVars == <<msUsers, msRendered, msDirty, peersRef, remoteStreams, localStreamRef,
            msConnectionState, msError, msStarts, msGone, msJoined>>

gaVars == <<gaNow, gaIceGatheringState, gaStage, gaWaits, gaHist, gaRegathered>>

wcVars == <<messageCallbacks, disconnectCallbacks, onAnyListener, wcSocketAny, wcRegistered, wcUnsubscribed, wcInvoked, wcLate>>

tgVars == <<tgChannel, isActive, lastHeartbeat, tgClaimTimer, tgInbox, tgNow, tgConflicts,
            tgLate>>

sfVars == <<sfPc, sfMakingOfferRef, sfIceCandidateBufferRef, sfOps, sfOfferers, sfHandlers, sfArrived, sfOutstanding, sfHist>>

clVars == <<msClosing, msStaleClosed>>

vars == <<pnVars, rcVars, iceVars, mdVars, msVars, gaVars, wcVars, tgVars, sfVars, clVars>>

\* Each specification runs one hook; the variables of the other hooks stay
\* as they are.
PnOnly == UNCHANGED <<rcVars, iceVars, mdVars, msVars, gaVars, wcVars, tgVars, sfVars, clVars>>

RcOnly == UNCHANGED <<pnVars, iceVars, mdVars, msVars, gaVars, wcVars, tgVars, sfVars, clVars>>

IceOnly == UNCHANGED <<pnVars, rcVars, mdVars, msVars, gaVars, wcVars, tgVars, sfVars, clVars>>

MdOnly == UNCHANGED <<pnVars, rcVars, iceVars, msVars, gaVars, wcVars, tgVars, sfVars, clVars>>

MsOnly == UNCHANGED <<pnVars, rcVars, iceVars, mdVars, gaVars, wcVars, tgVars, sfVars, clVars>>

GaOnly == UNCHANGED <<pnVars, rcVars, iceVars, mdVars, msVars, wcVars, tgVars, sfVars, clVars>>

WcOnly == UNCHANGED <<pnVars, rcVars, iceVars, mdVars, msVars, gaVars, tgVars, sfVars, clVars>>

TgOnly == UNCHANGED <<pnVars, rcVars, iceVars, mdVars, msVars, gaVars, wcVars, sfVars, clVars>>

SfOnly == UNCHANGED <<pnVars, rcVars, iceVars, mdVars, msVars, gaVars, wcVars, tgVars, clVars>>

\* SpecClose runs the mesh hook together with the 'close' events it defers.
ClOnly == UNCHANGED <<pnVars, rcVars, iceVars, mdVars, gaVars, wcVars, tgVars, sfVars>>

\* ------------------------------------------------------------------------
\* SpecPN: src/modules/video/index.ts
\* ------------------------------------------------------------------------

\* The two clients that run the hook; user ids are ordered as the strings
\* of the program are (userId < partnerId).
Clients == {1, 2}

\* A third roster entry that runs no client (a "ghost user" in the words of
\* index.ts:90): one id below and one above the clients' ids.
Ghosts == {0, 3}

Other(c) == CHOOSE d \in Clients : d # c

\* undefined, where the program holds a user id
NoUser == 0 - 1

\* The rosters: both clients, and possibly one ghost, in any order.
Perms(S) ==
    {s \in [1..Cardinality(S) -> S] : \A i, j \in 1..Cardinality(S) : i # j => s[i] # s[j]}

Rosters == Perms(Clients) \cup UNION {Perms(Clients \cup {g}) : g \in Ghosts}

\* users.findLast((u) => u.userId !== userId)?.userId
PartnerId(us, self) ==
    LET idx == {i \in 1..Len(us) : us[i] # self}
    IN IF idx = {} THEN NoUser ELSE us[CHOOSE i \in idx : \A j \in idx : j <= i]

\* const isPolite = userId < partnerId
IsPolite(self, partner) == self < partner

\* A session description: an offer is named by its sender and its number
\* among the sender's offers, an answer by the offer it answers.
NoDesc == [type |-> "none", from |-> 0, n |-> 0, restart |-> FALSE]

Offer(c, n, restart) == [type |-> "offer", from |-> c, n |-> n, restart |-> restart]

Answer(c, o) == [type |-> "answer", from |-> c, n |-> o.n, restart |-> o.restart]

\* peerConnectionRef.current === null
NoPc == [exists |-> FALSE, sig |-> "stable", local |-> NoDesc, covers |-> {},
         remote |-> NoDesc, remoteTracks |-> FALSE, need |-> {},
         negotiated |-> FALSE, conn |-> "new"]

\* new RTCPeerConnection(RTC_CONFIG) with the local tracks added: the added
\* tracks make negotiation needed.
NewPc == [NoPc EXCEPT !.exists = TRUE, !.need = {"tracks"}]

NoHist == [offersSent |-> {}, accepted |-> {}, ignored |-> {}, dropped |-> {},
           answersSent |-> {}, answerApplied |-> {}, glare |-> {},
           echo |-> [c \in Clients |-> NoDesc],
           politeAt |-> [c \in Clients |-> FALSE]]

\* timeoutMs = 5000, the default of waitForIceGathering (useWebRTC.ts:112)
timeoutMs == 5000

\* The callers of waitForIceGathering: startConnection and attemptIceRestart.
GaCallers == {"start", "restart"}

\* No call of waitForIceGathering was made.
NoWait == [at |-> "none", listener |-> FALSE, timer |-> FALSE, started |-> 0]

\* A connection that was just made, and nothing called (useWebRTC.ts:250-252).
GaIdle ==
    /\ gaNow = 0
    /\ gaIceGatheringState = "new"
    /\ gaStage = [w \in GaCallers |-> "idle"]
    /\ gaWaits = [w \in GaCallers |-> NoWait]
    /\ gaHist = [w \in GaCallers |-> [sent |-> FALSE, gathering |-> "new", elapsed |-> 0]]
    /\ gaRegathered = FALSE

\* A WebSocketClient as its constructor leaves it (unnamed/part_014:8-10, 92).
WcIdle ==
    /\ messageCallbacks = <<>>
    /\ disconnectCallbacks = <<>>
    /\ onAnyListener = FALSE
    /\ wcSocketAny = 0
    /\ wcRegistered = <<>>
    /\ wcUnsubscribed = {}
    /\ wcInvoked = {}
    /\ wcLate = FALSE

\* The tabs of one browser that open the same room.
Tabs == {1, 2}

\* No tab has opened the room (unnamed/part_016:10-15).
TgIdle ==
    /\ tgChannel = [t \in Tabs |-> "none"]
    /\ isActive = [t \in Tabs |-> FALSE]
    /\ lastHeartbeat = [t \in Tabs |-> 0]
    /\ tgClaimTimer = [t \in Tabs |-> FALSE]
    /\ tgInbox = [t \in Tabs |-> <<>>]
    /\ tgNow = 1
    /\ tgConflicts = [t \in Tabs |-> 0]
    /\ tgLate = [t \in Tabs |-> FALSE]

\* The three places of useWebRTC.ts that create an offer.
SfCallers == {"start", "negotiation", "restart"}

\* The calls of handleAnswer and handleIncomingOffer of one run.
SfCalls == 1..MaxSfCalls

\* peerConnectionRef.current === null (useWebRTC.ts:90).
NoSfPc ==
    [exists |-> FALSE, signalingState |-> "stable", remoteDescription |-> FALSE,
     pendingLocal |-> FALSE, currentLocal |-> FALSE]

\* A call of handleAnswer or handleIncomingOffer that has not happened.
NoSfHandler ==
    [kind |-> "none", at |-> "none", collision |-> FALSE, items |-> <<>>, pos |-> 0]

NoSfHist ==
    [applied |-> {}, met |-> {}, answers |-> [h \in SfCalls |-> 0], sent |-> {},
     negotiationIn |-> "none"]

\* The hook after its first render (useWebRTC.ts:90-97).
SfIdle ==
    /\ sfPc = NoSfPc
    /\ sfMakingOfferRef = FALSE
    /\ sfIceCandidateBufferRef = <<>>
    /\ sfOps = <<>>
    /\ sfOfferers = [w \in SfCallers |-> "idle"]
    /\ sfHandlers = [h \in SfCalls |-> NoSfHandler]
    /\ sfArrived = 0
    /\ sfOutstanding = 0
    /\ sfHist = NoSfHist

\* No link was destroyed yet.
ClIdle ==
    /\ msClosing = {}
    /\ msStaleClosed = {}

\* The hook of every client as it is after its first render.
PnIdle ==
    /\ pnStart = [c \in Clients |-> "idle"]
    /\ pnPartner = [c \in Clients |-> NoUser]
    /\ politeRef = [c \in Clients |-> FALSE]
    /\ makingOfferRef = [c \in Clients |-> FALSE]
    /\ ignoreOfferRef = [c \in Clients |-> FALSE]
    /\ isSettingRemoteAnswerPendingRef = [c \in Clients |-> FALSE]
    /\ currentIceGenerationRef = [c \in Clients |-> 0]
    /\ pnLocalStream = [c \in Clients |-> FALSE]
    /\ isConnecting = [c \in Clients |-> FALSE]
    /\ isConnected = [c \in Clients |-> FALSE]
    /\ pnError = [c \in Clients |-> "none"]
    /\ pnPc = [c \in Clients |-> NoPc]
    /\ pnOps = [c \in Clients |-> <<>>]
    /\ pnNet = [c \in Clients |-> <<>>]
    /\ pnHist = NoHist
    /\ pnFailures = 0

\* peerConnectionRef.current === null (useWebRTC.ts:92)
NoRcPc == [exists |-> FALSE, conn |-> "new", restarting |-> 0, restartSent |-> FALSE,
           grace |-> 0, viaGrace |-> 0]

NoRcHist == [delays |-> <<>>, last |-> [n |-> 0, delay |-> 0, state |-> "idle"],
             terminal |-> FALSE, after |-> {}, unclosed |-> FALSE, stopped |-> FALSE]

\* The SFU hook as it is after its first render (useWebRTC.ts:76-100).
RcIdle ==
    /\ connectionState = "idle"
    /\ error = "none"
    /\ reconnectAttemptsRef = 0
    /\ connectionAttemptedRef = FALSE
    /\ localStream = FALSE
    /\ peerConnectionRef = NoRcPc
    /\ rcStarts = <<>>
    /\ rcTimers = 0
    /\ rcOrphans = 0
    /\ rcEffectDue = FALSE
    /\ rcHist = NoRcHist

NoIceHandler == [at |-> "idle", kind |-> "none", items |-> <<>>, pos |-> 0]

\* The candidate buffer and the connection after the first render
\* (useWebRTC.ts:92-93).
IceIdle ==
    /\ iceCandidateBufferRef = <<>>
    /\ icePc = [exists |-> FALSE, remoteDescription |-> FALSE]
    /\ iceOps = <<>>
    /\ iceHandler = NoIceHandler
    /\ iceApplied = <<>>
    /\ iceNext = 1
    /\ iceLate = 0
    /\ iceDescs = 0

\* peerConnectionRef.current === null, no connection made yet
\* (useWebRTC.ts:92).  want counts the track changes made to the connection,
\* offered the changes that its current local description covers.
NoMdPc == [state |-> "none", sig |-> "stable", want |-> 0, offered |-> 0, need |-> FALSE,
           ops |-> <<>>, audioSender |-> FALSE, videoSenders |-> 0]

NoMdTracks == [audio |-> FALSE, audioEnabled |-> FALSE, video |-> 0, live |-> FALSE]

NoMdNegotiation == [at |-> "idle", offer |-> 0]

\* History of the media controls: tracks added and removed, those of them
\* made while an earlier change was in no offer yet, events fired, events
\* the handler skipped, offers sent.
NoMdHist == [added |-> 0, removed |-> 0, joined |-> 0, events |-> 0, skipped |-> 0,
             sent |-> 0]

\* The media controls after the first render (useWebRTC.ts:71-81).
MdIdle ==
    /\ mdLocalStream = FALSE
    /\ hasVideoTrack = FALSE
    /\ isAudioMuted = FALSE
    /\ mdConnectionState = "idle"
    /\ mdError = "none"
    /\ mdRendered = [localStream |-> FALSE, hasVideoTrack |-> FALSE, isAudioMuted |-> FALSE]
    /\ mdTracks = NoMdTracks
    /\ mdPc = NoMdPc
    /\ mdMakingOfferRef = FALSE
    /\ mdNegotiation = NoMdNegotiation
    /\ mdCamera = 0
    /\ mdNet = [toSfu |-> <<>>, toClient |-> <<>>]
    /\ mdHist = NoMdHist

\* The users of the room other than the client of SpecMesh, whose user id
\* lies between theirs (initiator = userId < partner.userId).
MsOthers == {1, 3}

\* useSimplePeer after its first render, in a room without partners yet
\* (useWebRTC-P2P.ts:514-537).
MsIdle ==
    /\ msUsers = {}
    /\ msRendered = [users |-> {}, connectionState |-> "idle"]
    /\ msDirty = FALSE
    /\ peersRef = [u \in MsOthers |-> "none"]
    /\ remoteStreams = {}
    /\ localStreamRef = FALSE
    /\ msConnectionState = "idle"
    /\ msError = "none"
    /\ msStarts = <<>>
    /\ msGone = {}
    /\ msJoined = {}

PnInit ==
    /\ users \in Rosters
    /\ PnIdle
    /\ wsAtMount = FALSE
    /\ RcIdle
    /\ IceIdle
    /\ MdIdle
    /\ MsIdle
    /\ GaIdle
    /\ WcIdle
    /\ TgIdle
    /\ SfIdle
    /\ ClIdle

PnUnchangedFlags ==
    UNCHANGED <<makingOfferRef, ignoreOfferRef, isSettingRemoteAnswerPendingRef,
                currentIceGenerationRef>>

\* startConnection, up to its first await (index.ts:307-323).  The model
\* lets each client call it once.
PnStartConnection(c) ==
    /\ PnOnly
    /\ pnStart[c] = "idle"
    /\ LET partnerId == PartnerId(users, c) IN
         IF partnerId = NoUser
         THEN /\ pnStart' = [pnStart EXCEPT ![c] = "done"]
              /\ UNCHANGED <<pnPartner, politeRef, isConnecting, pnError>>
         ELSE /\ pnPartner' = [pnPartner EXCEPT ![c] = partnerId]
              /\ politeRef' = [politeRef EXCEPT ![c] = IsPolite(c, partnerId)]
              /\ isConnecting' = [isConnecting EXCEPT ![c] = TRUE]
              /\ pnError' = [pnError EXCEPT ![c] = "none"]
              /\ pnStart' = [pnStart EXCEPT ![c] = "awaitMedia"]
    /\ PnUnchangedFlags
    /\ UNCHANGED <<users, pnLocalStream, isConnected, pnPc, pnOps, pnNet, pnHist, pnFailures>>

\* initializeLocalStream resolves; startConnection goes on to
\* createPeerConnection (index.ts:139-140, 164-172, 326).  The history keeps
\* politeRef.current as it is when the connection is made.
PnMediaGranted(c) ==
    /\ PnOnly
    /\ pnStart[c] = "awaitMedia"
    /\ pnStart' = [pnStart EXCEPT ![c] = "done"]
    /\ pnLocalStream' = [pnLocalStream EXCEPT ![c] = TRUE]
    /\ pnPc' = [pnPc EXCEPT ![c] = NewPc]
    /\ pnHist' = [pnHist EXCEPT !.politeAt[c] = politeRef[c]]
    /\ PnUnchangedFlags
    /\ UNCHANGED <<users, pnPartner, politeRef, isConnecting, isConnected, pnError,
                   pnOps, pnNet, pnFailures>>

\* initializeLocalStream rejects (all three getUserMedia attempts failed);
\* startConnection's catch (index.ts:141-157, 329-333).
PnMediaDenied(c) ==
    /\ PnOnly
    /\ pnStart[c] = "awaitMedia"
    /\ pnStart' = [pnStart EXCEPT ![c] = "done"]
    /\ isConnecting' = [isConnecting EXCEPT ![c] = FALSE]
    /\ pnError' = [pnError EXCEPT ![c] = "media"]
    /\ PnUnchangedFlags
    /\ UNCHANGED <<users, pnPartner, politeRef, pnLocalStream, isConnected, pnPc,
                   pnOps, pnNet, pnHist, pnFailures>>

\* pc.signalingState !== 'stable' (index.ts:190)
NotStable(c) == pnPc[c].sig # "stable"

\* pc.onnegotiationneeded up to its await (index.ts:185-198).  The browser
\* queues the event when negotiation is needed and the operations chain is
\* empty; a browser that follows the WebRTC specification fires it in state
\* stable only, older ones fire it in any state and without waiting for the
\* chain, which is what the handler's own check is for.  Both are allowed
\* here.
PnNegotiationNeeded(c) ==
    /\ PnOnly
    /\ pnPc[c].exists
    /\ pnPc[c].need # {}
    /\ (pnOps[c] = <<>> \/ pnPc[c].sig # "stable")
    /\ IF NotStable(c)
       THEN UNCHANGED <<makingOfferRef, pnOps>>
       ELSE /\ makingOfferRef' = [makingOfferRef EXCEPT ![c] = TRUE]
            /\ pnOps' = [pnOps EXCEPT ![c] =
                  Append(@, [op |-> "SLD", h |-> "neg", desc |-> NoDesc])]
    /\ UNCHANGED <<users, pnStart, pnPartner, politeRef, ignoreOfferRef,
                   isSettingRemoteAnswerPendingRef, currentIceGenerationRef, pnLocalStream,
                   isConnecting, isConnected, pnError, pnPc, pnNet, pnHist, pnFailures>>

\* The collision test of handleSignalingMessage (index.ts:349-353).
ReadyForOffer(c) ==
    /\ ~makingOfferRef[c]
    /\ (pnPc[c].sig = "stable" \/ isSettingRemoteAnswerPendingRef[c])

OfferCollision(c, description) == description.type = "offer" /\ ~ReadyForOffer(c)

\* ignoreOfferRef.current = !isPolite && offerCollision (index.ts:356-357)
\* A handler without the impolite side's rule.
IgnoreOfferNever(c, description) == FALSE

\* ignoreOfferRef.current = !isPolite && offerCollision
IgnoreOffer(c, description) == ~politeRef[c] /\ OfferCollision(c, description)

\* payload.userId !== userId, without the test: every message passes.
FromPartnerAlways(c, description) == TRUE

\* payload.userId !== userId (index.ts:459, 468, 476)
FromPartner(c, description) == description.from # c

\* The wsClient.onMessage callback of client c for a description
\* (index.ts:455-483): a message of the client itself is passed over, any
\* other goes to handleSignalingMessage, which runs up to its first await
\* (index.ts:340-377).  h is the history that the caller has brought up to
\* date.
OnMessage(c, description, h) ==
    IF ~FromPartner(c, description)
    THEN /\ pnHist' = h
         /\ UNCHANGED <<ignoreOfferRef, isSettingRemoteAnswerPendingRef,
                        currentIceGenerationRef, pnOps>>
    ELSE IF ~pnPc[c].exists
         THEN /\ pnHist' = [h EXCEPT !.dropped = @ \cup {description}]
              /\ UNCHANGED <<ignoreOfferRef, isSettingRemoteAnswerPendingRef,
                             currentIceGenerationRef, pnOps>>
         ELSE /\ ignoreOfferRef' = [ignoreOfferRef EXCEPT ![c] = IgnoreOffer(c, description)]
              /\ IF IgnoreOffer(c, description)
                 THEN /\ pnHist' = [h EXCEPT !.ignored = @ \cup {description}]
                      /\ UNCHANGED <<isSettingRemoteAnswerPendingRef,
                                     currentIceGenerationRef, pnOps>>
                 ELSE /\ isSettingRemoteAnswerPendingRef' =
                            [isSettingRemoteAnswerPendingRef EXCEPT ![c] = (description.type = "answer")]
                      /\ currentIceGenerationRef' =
                            [currentIceGenerationRef EXCEPT ![c] = @ + 1]
                      /\ pnOps' = [pnOps EXCEPT ![c] =
                            Append(@, [op |-> "SRD", h |-> "sig", desc |-> description])]
                      /\ pnHist' = h

\* The relay delivers the next message of the other client to client c.
PnDeliver(c) ==
    /\ PnOnly
    /\ pnNet[c] # <<>>
    /\ pnNet' = [pnNet EXCEPT ![c] = Tail(@)]
    /\ OnMessage(c, Head(pnNet[c]), pnHist)
    /\ UNCHANGED <<users, pnStart, pnPartner, politeRef, makingOfferRef, pnLocalStream,
                   isConnecting, isConnected, pnError, pnPc, pnFailures>>

\* The relay broadcasts to the room, and the message that client c has sent
\* last comes back to c itself, at any time before c sends the next one.
PnEchoArrives(c) ==
    /\ PnOnly
    /\ pnHist.echo[c] # NoDesc
    /\ OnMessage(c, pnHist.echo[c], [pnHist EXCEPT !.echo[c] = NoDesc])
    /\ UNCHANGED <<users, pnStart, pnPartner, politeRef, makingOfferRef, pnLocalStream,
                   isConnecting, isConnected, pnError, pnPc, pnNet, pnFailures>>

\* What pc.setLocalDescription() without an argument does when the chain
\* reaches it: an answer in have-remote-offer, an offer otherwise.  An offer
\* covers everything that needed negotiation; an answer carries the local
\* tracks (both clients capture the same kinds of track) and restarts ICE
\* when the offer it answers does.
ImplicitDescription(c, pc) ==
    IF pc.sig = "have-remote-offer"
    THEN Answer(c, pc.remote)
    ELSE Offer(c, Cardinality({o \in pnHist.offersSent : o.from = c}) + 1, "ice" \in pc.need)

AfterSetLocal(c, pc) ==
    IF pc.sig = "have-remote-offer"
    THEN [pc EXCEPT !.sig = "stable", !.negotiated = TRUE,
                    !.need = (@ \ {"tracks"}) \ (IF pc.remote.restart THEN {"ice"} ELSE {}),
                    !.conn = IF @ = "failed" /\ pc.remote.restart THEN "new" ELSE @]
    ELSE [pc EXCEPT !.sig = "have-local-offer", !.local = ImplicitDescription(c, pc),
                    !.covers = pc.need, !.need = {}]

\* pc.setRemoteDescription(offer): in have-local-offer the browser rolls the
\* local offer back first (what that offer covered needs negotiation again).
AfterSetRemoteOffer(pc, d) ==
    [pc EXCEPT !.sig = "have-remote-offer", !.remote = d, !.remoteTracks = TRUE,
               !.local = NoDesc, !.covers = {},
               !.need = IF pc.sig = "have-local-offer" THEN @ \cup pc.covers ELSE @]

AfterSetRemoteAnswer(pc, d) ==
    [pc EXCEPT !.sig = "stable", !.remote = d, !.remoteTracks = TRUE, !.negotiated = TRUE,
               !.covers = {},
               !.conn = IF @ = "failed" /\ d.restart THEN "new" ELSE @]

PnSend(to, d) == pnNet' = [pnNet EXCEPT ![to] = Append(@, d)]

\* The offers of the other client that are on their way to c.
InFlightOffers(c) == {pnNet[c][i] : i \in {j \in 1..Len(pnNet[c]) : pnNet[c][j].type = "offer"}}

\* History of a description handed to wsClient.send.
Sent(h, c, d) ==
    IF d.type = "offer"
    THEN [h EXCEPT !.offersSent = @ \cup {d},
                   !.glare = @ \cup {{d, o} : o \in InFlightOffers(c)},
                   !.echo[c] = d]
    ELSE [h EXCEPT !.answersSent = @ \cup {d}, !.echo[c] = d]

\* pc.ontrack (index.ts:175-182): fires when a remote description brings
\* remote tracks the connection did not have.
OnTrack(c, pc) ==
    IF ~pc.remoteTracks
    THEN /\ isConnected' = [isConnected EXCEPT ![c] = TRUE]
         /\ isConnecting' = [isConnecting EXCEPT ![c] = FALSE]
    ELSE UNCHANGED <<isConnected, isConnecting>>

\* The operation at the head of the chain settles and the code that awaits
\* it runs to its next await: onnegotiationneeded after setLocalDescription
\* (index.ts:198-212).
PnOfferCreated(c) ==
    /\ PnOnly
    /\ pnOps[c] # <<>>
    /\ Head(pnOps[c]).h = "neg"
    /\ LET d == ImplicitDescription(c, pnPc[c]) IN
         /\ pnPc' = [pnPc EXCEPT ![c] = AfterSetLocal(c, pnPc[c])]
         /\ PnSend(Other(c), d)
         /\ pnHist' = Sent(pnHist, c, d)
    /\ makingOfferRef' = [makingOfferRef EXCEPT ![c] = FALSE]
    /\ pnOps' = [pnOps EXCEPT ![c] = Tail(@)]
    /\ UNCHANGED <<users, pnStart, pnPartner, politeRef, ignoreOfferRef,
                   isSettingRemoteAnswerPendingRef, currentIceGenerationRef, pnLocalStream,
                   isConnecting, isConnected, pnError, pnFailures>>

\* handleSignalingMessage after setRemoteDescription (index.ts:377-386) and
\* its catch (index.ts:397-400).  An answer is applied in have-local-offer
\* only; anywhere else the browser rejects it with InvalidStateError.
PnRemoteDescriptionSet(c) ==
    /\ PnOnly
    /\ pnOps[c] # <<>>
    /\ Head(pnOps[c]).op = "SRD"
    /\ LET d == Head(pnOps[c]).desc
           pc == pnPc[c] IN
         IF d.type = "offer"
         THEN /\ pnPc' = [pnPc EXCEPT ![c] = AfterSetRemoteOffer(pc, d)]
              /\ OnTrack(c, pc)
              /\ pnHist' = [pnHist EXCEPT !.accepted = @ \cup {d}]
              /\ isSettingRemoteAnswerPendingRef' =
                    [isSettingRemoteAnswerPendingRef EXCEPT ![c] = FALSE]
              /\ pnOps' = [pnOps EXCEPT ![c] =
                    Append(Tail(@), [op |-> "SLD", h |-> "ans", desc |-> NoDesc])]
              /\ UNCHANGED pnError
         ELSE IF pc.sig = "have-local-offer"
         THEN /\ pnPc' = [pnPc EXCEPT ![c] = AfterSetRemoteAnswer(pc, d)]
              /\ OnTrack(c, pc)
              /\ pnHist' = [pnHist EXCEPT !.answerApplied = @ \cup {d}]
              /\ isSettingRemoteAnswerPendingRef' =
                    [isSettingRemoteAnswerPendingRef EXCEPT ![c] = FALSE]
              /\ pnOps' = [pnOps EXCEPT ![c] = Tail(@)]
              /\ UNCHANGED pnError
         ELSE /\ pnError' = [pnError EXCEPT ![c] = "signaling"]
              /\ pnOps' = [pnOps EXCEPT ![c] = Tail(@)]
              /\ UNCHANGED <<pnPc, isConnected, isConnecting, pnHist,
                             isSettingRemoteAnswerPendingRef>>
    /\ UNCHANGED <<users, pnStart, pnPartner, politeRef, makingOfferRef, ignoreOfferRef,
                   currentIceGenerationRef, pnLocalStream, pnNet, pnFailures>>

\* handleSignalingMessage after the setLocalDescription that answers
\* (index.ts:386-395).
PnAnswerCreated(c) ==
    /\ PnOnly
    /\ pnOps[c] # <<>>
    /\ Head(pnOps[c]).h = "ans"
    /\ LET d == ImplicitDescription(c, pnPc[c]) IN
         /\ pnPc' = [pnPc EXCEPT ![c] = AfterSetLocal(c, pnPc[c])]
         /\ PnSend(Other(c), d)
         /\ pnHist' = Sent(pnHist, c, d)
    /\ pnOps' = [pnOps EXCEPT ![c] = Tail(@)]
    /\ PnUnchangedFlags
    /\ UNCHANGED <<users, pnStart, pnPartner, politeRef, pnLocalStream,
                   isConnecting, isConnected, pnError, pnFailures>>

\* pc.onconnectionstatechange, case 'connected' (index.ts:231-236).  The
\* transport connects once both ends hold a local and a remote description.
PnTransportConnected(c) ==
    /\ PnOnly
    /\ pnPc[c].exists /\ pnPc[c].negotiated /\ pnPc[c].conn = "new"
    /\ pnPc[Other(c)].exists /\ pnPc[Other(c)].negotiated
    /\ pnPc' = [pnPc EXCEPT ![c].conn = "connected"]
    /\ isConnected' = [isConnected EXCEPT ![c] = TRUE]
    /\ isConnecting' = [isConnecting EXCEPT ![c] = FALSE]
    /\ pnError' = [pnError EXCEPT ![c] = "none"]
    /\ PnUnchangedFlags
    /\ UNCHANGED <<users, pnStart, pnPartner, politeRef, pnLocalStream, pnOps, pnNet,
                   pnHist, pnFailures>>

\* pc.onconnectionstatechange, case 'failed' (index.ts:244-257):
\* pc.restartIce() makes negotiation needed.
PnTransportFailed(c) ==
    /\ PnOnly
    /\ pnPc[c].exists /\ pnPc[c].negotiated /\ pnPc[c].conn \in {"new", "connected"}
    /\ pnFailures < MaxRestarts
    /\ pnFailures' = pnFailures + 1
    /\ pnPc' = [pnPc EXCEPT ![c].conn = "failed", ![c].need = @ \cup {"ice"}]
    /\ isConnected' = [isConnected EXCEPT ![c] = FALSE]
    /\ pnError' = [pnError EXCEPT ![c] = "lost"]
    /\ PnUnchangedFlags
    /\ UNCHANGED <<users, pnStart, pnPartner, politeRef, pnLocalStream, isConnecting,
                   pnOps, pnNet, pnHist>>

PnNext ==
    \E c \in Clients :
        \/ PnStartConnection(c)
        \/ PnMediaGranted(c)
        \/ PnMediaDenied(c)
        \/ PnNegotiationNeeded(c)
        \/ PnDeliver(c)
        \/ PnEchoArrives(c)
        \/ PnOfferCreated(c)
        \/ PnRemoteDescriptionSet(c)
        \/ PnAnswerCreated(c)
        \/ PnTransportConnected(c)
        \/ PnTransportFailed(c)

SpecPN == PnInit /\ [][PnNext]_vars

\* ------------------------------------------------------------------------
\* SpecPN: properties
\* ------------------------------------------------------------------------

\* Nothing is left to do: both calls of startConnection have returned, no
\* message is in flight, no operation is pending, no negotiation-needed
\* event can produce an offer and no transport is about to connect.
PnQuiescent ==
    \A c \in Clients :
        /\ pnStart[c] = "done"
        /\ pnNet[c] = <<>>
        /\ pnOps[c] = <<>>
        /\ pnPc[c].exists => (pnPc[c].need = {} \/ pnPc[c].sig # "stable")
        /\ ~(pnPc[c].negotiated /\ pnPc[Other(c)].negotiated /\ pnPc[c].conn = "new")

\* Each client's connection is a connection to the other client.
HandlesToEachOther == \A c \in Clients : pnPc[c].exists /\ pnPartner[c] = Other(c)

AnswerTo(o) == Answer(Other(o.from), o)

\* C1 - Glare symmetry.  Two clients hold a connection to each other and
\* each sends an offer while the other's offer is still in flight.  Then the
\* two offers are never both applied and never both ignored, neither is
\* dropped, and when everything has settled exactly one of them has been
\* applied as a remote description and answered (one answer sent, that
\* answer applied), the other has been ignored, and both connections are
\* back in signaling state stable with a negotiated session.
C1_GlareSymmetry ==
    HandlesToEachOther =>
        \A g \in pnHist.glare : \A a, b \in g :
            a # b =>
              /\ ~(a \in pnHist.accepted /\ b \in pnHist.accepted)
              /\ ~(a \in pnHist.ignored /\ b \in pnHist.ignored)
              /\ a \notin pnHist.dropped
              /\ PnQuiescent =>
                   /\ Cardinality(g \cap pnHist.accepted) = 1
                   /\ Cardinality(g \cap pnHist.ignored) = 1
                   /\ Cardinality({AnswerTo(a), AnswerTo(b)} \cap pnHist.answersSent) = 1
                   /\ (a \in pnHist.accepted) => (AnswerTo(a) \in pnHist.answerApplied)
                   /\ \A c \in Clients : pnPc[c].sig = "stable" /\ pnPc[c].negotiated

\* A settled run in which both offers were in flight at once and both
\* transports connected.
C1_Witness ==
    /\ HandlesToEachOther
    /\ PnQuiescent
    /\ pnHist.glare # {}
    /\ \A c \in Clients : pnPc[c].conn = "connected" /\ isConnected[c]

\* The offers of client c that the other client's handleSignalingMessage
\* went through with a connection in place (applied or ignored).
HandledOffersOf(c) == {o \in pnHist.accepted \cup pnHist.ignored : o.from = c}

\* C2 - Politeness antisymmetry, as the claim states it: whenever the two
\* clients have each handled an offer of the other, exactly one of the two
\* isPolite flags is true, whatever the roster.
C2_PolitenessAntisymmetry ==
    (\A c \in Clients : HandledOffersOf(c) # {}) => politeRef[1] # politeRef[2]

\* C3 - Simultaneous start, as the claim states it: in a room of two, when
\* both clients have started, created their connection and everything has
\* settled without a transport failure, exactly one offer and exactly one
\* answer were sent and both sides are connected.
C3_OneOfferOneAnswerConnected ==
    (/\ Len(users) = 2
     /\ PnQuiescent
     /\ pnFailures = 0
     /\ \A c \in Clients : pnPc[c].exists)
    => /\ Cardinality(pnHist.offersSent) = 1
       /\ Cardinality(pnHist.answersSent) = 1
       /\ \A c \in Clients : isConnected[c] /\ pnPc[c].conn = "connected"

\* ------------------------------------------------------------------------
\* SpecRC: src/modules/video/useWebRTC.ts, failure and reconnection
\* ------------------------------------------------------------------------
\* One client and its connection to the SFU.  The callbacks the hook
\* creates with an empty dependency list keep the values of the first
\* render: reconnectWithBackoff calls the startConnection of the first
\* render, whose wsClient is the one of that render (wsAtMount), whose
\* connectionState is IDLE and whose localStream is null.  A connection
\* that startConnection replaces without closing it is not followed further.

maxReconnectAttempts == 5

Min(a, b) == IF a <= b THEN a ELSE b

\* The delay computed after the increment of the counter.
BackoffDelayAfterIncrement(n) == Min(1000 * 2 ^ (n + 1), 16000)

\* Math.min(1000 * Math.pow(2, reconnectAttemptsRef.current), 16000)
BackoffDelay(n) == Min(1000 * 2 ^ n, 16000)

RemoveAt(q, i) == [j \in 1..(Len(q) - 1) |-> IF j < i THEN q[j] ELSE q[j + 1]]

\* new RTCPeerConnection(RTC_CONFIG) (useWebRTC.ts:250-252)
NewRcPc == [NoRcPc EXCEPT !.exists = TRUE]

\* What has started by itself since the terminal failure.
After(h, what) == IF h.terminal THEN [h EXCEPT !.after = @ \cup {what}] ELSE h

\* A call from outside the hook ends the terminal failure.
ByUser(h) == [h EXCEPT !.terminal = FALSE, !.after = {}]

\* The history after a step of the startConnection that origin called.
\* The user calls startConnection() or reconnect(): whatever stopConnection
\* has stopped may run again.
Called(h) == [h EXCEPT !.stopped = FALSE]

Continued(h, origin) == IF origin = "user" THEN ByUser(h) ELSE h

\* A reconnectWithBackoff without the test of the counter.
MaxAttemptsReachedNever == FALSE

\* reconnectAttemptsRef.current >= maxReconnectAttempts (useWebRTC.ts:151)
MaxAttemptsReached == reconnectAttemptsRef >= maxReconnectAttempts

\* reconnectWithBackoff up to its await (useWebRTC.ts:150-165).  err is the
\* error the caller leaves, h the history up to the call.
ReconnectWithBackoff(err, h) ==
    IF MaxAttemptsReached
    THEN /\ connectionState' = "failed"
         /\ error' = "refresh"
         /\ rcHist' = [h EXCEPT !.terminal = TRUE,
                                !.last = [n |-> reconnectAttemptsRef, delay |-> 0,
                                          state |-> "failed"]]
         /\ UNCHANGED <<reconnectAttemptsRef, rcTimers>>
    ELSE /\ reconnectAttemptsRef' = reconnectAttemptsRef + 1
         /\ connectionState' = "reconnecting"
         /\ error' = err
         /\ rcTimers' = rcTimers + 1
         /\ rcHist' = [After(h, "timer") EXCEPT
                          !.delays = Append(@, BackoffDelay(reconnectAttemptsRef)),
                          !.last = [n |-> reconnectAttemptsRef,
                                    delay |-> BackoffDelay(reconnectAttemptsRef),
                                    state |-> "reconnecting"]]

\* cleanupConnection (useWebRTC.ts:422-450); stream is the localStream of
\* the closure that calls it.  A call of attemptIceRestart that waits on the
\* closed connection will find it closed.
CleanupConnection(keepLocalStream, stream) ==
    /\ rcOrphans + peerConnectionRef.restarting <= MaxInFlight
    /\ peerConnectionRef' = NoRcPc
    /\ rcOrphans' = rcOrphans + peerConnectionRef.restarting
    /\ connectionState' = "idle"
    /\ error' = "none"
    /\ localStream' = IF ~keepLocalStream /\ stream THEN FALSE ELSE localStream
    /\ rcEffectDue' = TRUE

\* startConnection up to its first await (useWebRTC.ts:456-486).  origin
\* says who calls: "user" (from outside the hook), "effect" (the
\* auto-reconnect effect) or "timer" (reconnectWithBackoff).  ws and state
\* are wsClient and connectionState of the closure: those of the current
\* render, or of the first render when reconnectWithBackoff calls it; due says whether the auto-reconnect effect
\* is still to run when the call leaves the connection alone.
StartConnection(origin, ws, state, h, due) ==
    IF ~ws
    THEN /\ rcHist' = h
         /\ rcEffectDue' = due
         /\ UNCHANGED <<connectionAttemptedRef, connectionState, error, peerConnectionRef,
                        rcOrphans, localStream, rcStarts>>
    ELSE /\ connectionAttemptedRef' = TRUE
         /\ IF state = "connecting"
               \/ (peerConnectionRef.exists /\ peerConnectionRef.conn = "connected")
            THEN /\ rcHist' = h
                 /\ rcEffectDue' = due
                 /\ UNCHANGED <<connectionState, error, peerConnectionRef, rcOrphans,
                                localStream, rcStarts>>
            ELSE /\ rcHist' = After(h, "attempt")
                 /\ IF peerConnectionRef.exists
                       /\ peerConnectionRef.conn \in {"disconnected", "failed"}
                    THEN /\ CleanupConnection(TRUE, FALSE)
                         /\ rcStarts' = Append(rcStarts, [origin |-> origin, at |-> "wait"])
                    ELSE /\ connectionState' = "connecting"
                         /\ error' = "none"
                         /\ rcStarts' = Append(rcStarts, [origin |-> origin, at |-> "setup"])
                         /\ rcEffectDue' = due
                         /\ UNCHANGED <<peerConnectionRef, rcOrphans, localStream>>

RcInit ==
    /\ wsAtMount \in BOOLEAN
    /\ RcIdle
    /\ users = <<1, 2>>
    /\ PnIdle
    /\ IceIdle
    /\ MdIdle
    /\ MsIdle
    /\ GaIdle
    /\ WcIdle
    /\ TgIdle
    /\ SfIdle
    /\ ClIdle

\* The user, or the component that shows the call, calls startConnection()
\* (useWebRTC.ts:456-486).
RcUserStartConnection ==
    /\ RcOnly
    /\ Len(rcStarts) < MaxInFlight
    /\ StartConnection("user", TRUE, connectionState, Called(ByUser(rcHist)), rcEffectDue)
    /\ UNCHANGED <<wsAtMount, reconnectAttemptsRef, rcTimers>>

\* The user calls reconnect() (useWebRTC.ts:688-694).
RcUserReconnect ==
    /\ RcOnly
    /\ CleanupConnection(FALSE, localStream)
    /\ reconnectAttemptsRef' = 0
    /\ connectionAttemptedRef' = FALSE
    /\ rcHist' = [Called(ByUser(rcHist)) EXCEPT !.delays = <<>>]
    /\ UNCHANGED <<wsAtMount, rcStarts, rcTimers>>

\* The auto-reconnect effect (useWebRTC.ts:888-894) runs after a render
\* that followed cleanupConnection; the room has partners.
RcAutoReconnectEffect ==
    /\ RcOnly
    /\ rcEffectDue
    /\ Len(rcStarts) < MaxInFlight
    /\ IF localStream /\ ~peerConnectionRef.exists /\ connectionAttemptedRef
       THEN StartConnection("effect", TRUE, connectionState, rcHist, FALSE)
       ELSE /\ rcEffectDue' = FALSE
            /\ UNCHANGED <<connectionAttemptedRef, connectionState, error, peerConnectionRef,
                           rcOrphans, localStream, rcStarts, rcHist>>
    /\ UNCHANGED <<wsAtMount, reconnectAttemptsRef, rcTimers>>

\* The timer of reconnectWithBackoff fires (useWebRTC.ts:165-172): the
\* startConnection of the first render runs.  It never rejects, so the
\* catch of reconnectWithBackoff never runs.
RcTimerFires ==
    /\ RcOnly
    /\ rcTimers > 0
    /\ Len(rcStarts) < MaxInFlight
    /\ rcTimers' = rcTimers - 1
    /\ StartConnection("timer", wsAtMount, "idle", rcHist, rcEffectDue)
    /\ UNCHANGED <<wsAtMount, reconnectAttemptsRef>>

\* startConnection after the 100 ms that follow the cleanup
\* (useWebRTC.ts:481-487).
RcStartWaited(i) ==
    /\ RcOnly
    /\ i <= Len(rcStarts)
    /\ rcStarts[i].at = "wait"
    /\ rcStarts' = [rcStarts EXCEPT ![i].at = "setup"]
    /\ connectionState' = "connecting"
    /\ error' = "none"
    /\ rcHist' = Continued(rcHist, rcStarts[i].origin)
    /\ UNCHANGED <<wsAtMount, reconnectAttemptsRef, connectionAttemptedRef, localStream,
                   peerConnectionRef, rcTimers, rcOrphans, rcEffectDue>>

\* startConnection from the local stream to the offer sent
\* (useWebRTC.ts:489-531): the new connection replaces the one in the ref
\* (createPeerConnection, 250-252), which nothing closes; the history keeps
\* that a connection was left open.
RcStartOfferSent(i) ==
    /\ RcOnly
    /\ i <= Len(rcStarts)
    /\ rcStarts[i].at = "setup"
    /\ rcStarts' = RemoveAt(rcStarts, i)
    /\ localStream' = TRUE
    /\ peerConnectionRef' = NewRcPc
    /\ rcHist' = [Continued(rcHist, rcStarts[i].origin) EXCEPT
                     !.unclosed = @ \/ peerConnectionRef.exists]
    /\ UNCHANGED <<wsAtMount, connectionState, error, reconnectAttemptsRef,
                   connectionAttemptedRef, rcTimers, rcOrphans, rcEffectDue>>

\* An await of startConnection rejects; its catch (useWebRTC.ts:532-537)
\* ends with cleanupConnection(), which is the last to set the state.
RcStartFails(i) ==
    /\ RcOnly
    /\ i <= Len(rcStarts)
    /\ rcStarts[i].at = "setup"
    /\ rcStarts' = RemoveAt(rcStarts, i)
    /\ CleanupConnection(FALSE, rcStarts[i].origin # "timer" /\ localStream)
    /\ rcHist' = Continued(rcHist, rcStarts[i].origin)
    /\ UNCHANGED <<wsAtMount, reconnectAttemptsRef, connectionAttemptedRef, rcTimers>>

\* The states from which the transport can report a new state: a
\* connection whose offer is out, a live one, or a failed one whose ICE
\* restart offer is out.
RcTransportMoves ==
    /\ peerConnectionRef.exists
    /\ \/ peerConnectionRef.conn \in {"new", "disconnected"}
       \/ peerConnectionRef.conn = "failed" /\ peerConnectionRef.restartSent

\* pc.onconnectionstatechange, case 'connected' (useWebRTC.ts:338-342).
RcTransportConnected ==
    /\ RcOnly
    /\ RcTransportMoves
    /\ peerConnectionRef' = [peerConnectionRef EXCEPT !.conn = "connected",
                                                      !.restartSent = FALSE]
    /\ connectionState' = "connected"
    /\ error' = "none"
    /\ reconnectAttemptsRef' = 0
    /\ rcHist' = [rcHist EXCEPT !.delays = <<>>]
    /\ UNCHANGED <<wsAtMount, connectionAttemptedRef, localStream, rcStarts, rcTimers,
                   rcOrphans, rcEffectDue>>

\* pc.onconnectionstatechange, case 'disconnected' (useWebRTC.ts:344-353):
\* a 2 s timer is set; grace counts the timers that are pending, viaGrace the
\* calls of attemptIceRestart that the timers have made since this
\* disconnection.
RcTransportDisconnected ==
    /\ RcOnly
    /\ peerConnectionRef.exists
    /\ peerConnectionRef.conn = "connected"
    /\ peerConnectionRef.grace < MaxGrace
    /\ peerConnectionRef' = [peerConnectionRef EXCEPT !.conn = "disconnected",
                                                      !.grace = @ + 1,
                                                      !.viaGrace = 0]
    /\ connectionState' = "disconnected"
    /\ UNCHANGED <<wsAtMount, error, reconnectAttemptsRef, connectionAttemptedRef,
                   localStream, rcStarts, rcTimers, rcOrphans, rcEffectDue, rcHist>>

\* The oldest 2 s timer fires (useWebRTC.ts:348-352) and, when the
\* connection is disconnected, attemptIceRestart runs up to its first await
\* (useWebRTC.ts:179-187).  Nothing cancels a timer, and it looks at the state
\* of the connection as it is when it fires.
RcGraceTimer ==
    /\ RcOnly
    /\ peerConnectionRef.exists
    /\ peerConnectionRef.grace > 0
    /\ peerConnectionRef.restarting < MaxInFlight
    /\ IF peerConnectionRef.conn = "disconnected"
       THEN /\ peerConnectionRef' = [peerConnectionRef EXCEPT !.grace = @ - 1,
                                                             !.viaGrace = @ + 1,
                                                             !.restarting = @ + 1]
            /\ connectionState' = "reconnecting"
            /\ rcHist' = After(rcHist, "restart")
       ELSE /\ peerConnectionRef' = [peerConnectionRef EXCEPT !.grace = @ - 1]
            /\ UNCHANGED <<connectionState, rcHist>>
    /\ UNCHANGED <<wsAtMount, error, reconnectAttemptsRef, connectionAttemptedRef,
                   localStream, rcStarts, rcTimers, rcOrphans, rcEffectDue>>

\* The transport fails.  When ICE is what failed, the browser fires
\* iceconnectionstatechange first (useWebRTC.ts:369-376, attemptIceRestart
\* up to its first await) and connectionstatechange after it; a failure of
\* DTLS fires connectionstatechange alone.  Case 'failed'
\* (useWebRTC.ts:355-360) calls reconnectWithBackoff.
RcTransportFailed(kind) ==
    /\ RcOnly
    /\ RcTransportMoves \/ (peerConnectionRef.exists /\ peerConnectionRef.conn = "connected")
    /\ rcTimers < MaxInFlight
    /\ kind = "ice" => peerConnectionRef.restarting < MaxInFlight
    /\ peerConnectionRef' =
          [peerConnectionRef EXCEPT !.conn = "failed", !.restartSent = FALSE,
                                    !.restarting = IF kind = "ice" THEN @ + 1 ELSE @]
    /\ ReconnectWithBackoff("reconnecting",
                            IF kind = "ice" THEN After(rcHist, "restart") ELSE rcHist)
    /\ UNCHANGED <<wsAtMount, connectionAttemptedRef, localStream, rcStarts, rcOrphans,
                   rcEffectDue>>

\* attemptIceRestart from createOffer to the restart offer sent
\* (useWebRTC.ts:185-200).
RcIceRestartSent ==
    /\ RcOnly
    /\ peerConnectionRef.exists
    /\ peerConnectionRef.restarting > 0
    /\ peerConnectionRef' = [peerConnectionRef EXCEPT !.restarting = @ - 1,
                                                      !.restartSent = TRUE]
    /\ UNCHANGED <<wsAtMount, connectionState, error, reconnectAttemptsRef,
                   connectionAttemptedRef, localStream, rcStarts, rcTimers, rcOrphans,
                   rcEffectDue, rcHist>>

\* An await of attemptIceRestart rejects; its catch calls
\* reconnectWithBackoff (useWebRTC.ts:201-205).
RcIceRestartFailed ==
    /\ RcOnly
    /\ peerConnectionRef.exists
    /\ peerConnectionRef.restarting > 0
    /\ rcTimers < MaxInFlight
    /\ peerConnectionRef' = [peerConnectionRef EXCEPT !.restarting = @ - 1]
    /\ ReconnectWithBackoff(error, rcHist)
    /\ UNCHANGED <<wsAtMount, connectionAttemptedRef, localStream, rcStarts, rcOrphans,
                   rcEffectDue>>

\* The same on a connection that cleanupConnection has closed: createOffer
\* rejects on a closed connection.
RcOrphanRestartFailed ==
    /\ RcOnly
    /\ rcOrphans > 0
    /\ rcTimers < MaxInFlight
    /\ rcOrphans' = rcOrphans - 1
    /\ ReconnectWithBackoff(error, rcHist)
    /\ UNCHANGED <<wsAtMount, connectionAttemptedRef, localStream, peerConnectionRef,
                   rcStarts, rcEffectDue>>

\* The signaling channel drops: the onDisconnect handler of the message
\* effect (useWebRTC.ts:854-860).  cleanupConnection(true) closes the
\* connection and sets IDLE; the error is set after it.
RcSignalingDisconnect ==
    /\ RcOnly
    /\ peerConnectionRef.exists
    /\ rcOrphans + peerConnectionRef.restarting <= MaxInFlight
    /\ peerConnectionRef' = NoRcPc
    /\ rcOrphans' = rcOrphans + peerConnectionRef.restarting
    /\ connectionState' = "idle"
    /\ error' = "Connection lost"
    /\ rcEffectDue' = TRUE
    /\ UNCHANGED <<wsAtMount, reconnectAttemptsRef, connectionAttemptedRef, localStream,
                   rcStarts, rcTimers, rcHist>>

RcNext ==
    \/ RcUserStartConnection
    \/ RcUserReconnect
    \/ RcAutoReconnectEffect
    \/ RcTimerFires
    \/ \E i \in 1..MaxInFlight : RcStartWaited(i) \/ RcStartOfferSent(i) \/ RcStartFails(i)
    \/ RcTransportConnected
    \/ RcTransportDisconnected
    \/ RcGraceTimer
    \/ \E kind \in {"ice", "dtls"} : RcTransportFailed(kind)
    \/ RcIceRestartSent
    \/ RcIceRestartFailed
    \/ RcOrphanRestartFailed
    \/ RcSignalingDisconnect

SpecRC == RcInit /\ [][RcNext]_vars

\* ------------------------------------------------------------------------
\* SpecRC: properties
\* ------------------------------------------------------------------------

ExpectedDelays == <<1000, 2000, 4000, 8000, 16000>>

\* C4 - Backoff sequence.  The delays scheduled since the counter was last
\* reset are the first reconnectAttempts of 1000, 2000, 4000, 8000, 16000,
\* in that order; a call of reconnectWithBackoff with reconnectAttempts = n
\* below 5 schedules min(1000 * 2^n, 16000) ms, and a call with the counter
\* at 5 (the sixth in a row) schedules nothing and sets connectionState to
\* failed.
C4_BackoffSequence ==
    /\ Len(rcHist.delays) = reconnectAttemptsRef
    /\ reconnectAttemptsRef <= Len(ExpectedDelays)
    /\ rcHist.delays = SubSeq(ExpectedDelays, 1, Len(rcHist.delays))
    /\ rcHist.last.state # "idle" =>
          IF rcHist.last.n < 5
          THEN /\ rcHist.last.delay = ExpectedDelays[rcHist.last.n + 1]
               /\ rcHist.last.state = "reconnecting"
          ELSE /\ rcHist.last.n = 5
               /\ rcHist.last.delay = 0
               /\ rcHist.last.state = "failed"

\* Five failures in a row have scheduled the five delays and the sixth has
\* just been handled.
C4_Witness ==
    /\ rcHist.delays = ExpectedDelays
    /\ rcHist.last.n = 5
    /\ connectionState = "failed"
    /\ error = "refresh"

\* C5 - Terminal failure, the claim's part on what is started: from the
\* call of reconnectWithBackoff that found the attempts exhausted until the
\* next call of startConnection() or reconnect() from outside the hook (or
\* the next step of such a call), the hook starts no connection attempt, no
\* ICE restart and no retry timer.
C5_NothingStartedAfterTerminal == rcHist.terminal => rcHist.after = {}

\* ------------------------------------------------------------------------
\* SpecIce: src/modules/video/useWebRTC.ts, remote ICE candidates
\* ------------------------------------------------------------------------
\* One connection, created once.  The candidates are numbered in the order
\* in which the signaling server delivers them.  A remote description is
\* delivered when no handler of an earlier one is still running, an offer
\* of the SFU when the connection is stable (no rollback); descriptions and
\* candidates are valid, so setRemoteDescription and addIceCandidate
\* resolve.

MAX_ICE_CANDIDATES == 50

\* A buffer that, when full, refuses the new candidate.
BufferPushKeepOldest(buffer, candidate) ==
    IF Len(buffer) >= MAX_ICE_CANDIDATES THEN buffer ELSE Append(buffer, candidate)

\* if (length >= MAX_ICE_CANDIDATES) shift(); push(candidate)
BufferPush(buffer, candidate) ==
    IF Len(buffer) >= MAX_ICE_CANDIDATES
    THEN Append(Tail(buffer), candidate)
    ELSE Append(buffer, candidate)

IceInit ==
    /\ IceIdle
    /\ users = <<1, 2>>
    /\ PnIdle
    /\ wsAtMount = FALSE
    /\ RcIdle
    /\ MdIdle
    /\ MsIdle
    /\ GaIdle
    /\ WcIdle
    /\ TgIdle
    /\ SfIdle
    /\ ClIdle

\* createPeerConnection, called by startConnection (useWebRTC.ts:250-252).
IceCreatePeerConnection ==
    /\ IceOnly
    /\ ~icePc.exists
    /\ icePc' = [icePc EXCEPT !.exists = TRUE]
    /\ UNCHANGED <<iceCandidateBufferRef, iceOps, iceHandler, iceApplied, iceNext, iceLate,
                   iceDescs>>

\* handleICECandidate (useWebRTC.ts:652-670): buffered without a remote
\* description, handed to pc.addIceCandidate with one.
IceCandidateArrives(limit) ==
    /\ IceOnly
    /\ iceNext <= limit
    /\ iceNext' = iceNext + 1
    /\ IF ~icePc.exists \/ ~icePc.remoteDescription
       THEN /\ iceCandidateBufferRef' = BufferPush(iceCandidateBufferRef, iceNext)
            /\ UNCHANGED <<iceOps, iceLate>>
       ELSE /\ iceLate < MaxLate
            /\ iceLate' = iceLate + 1
            /\ iceOps' = Append(iceOps, [op |-> "add", candidate |-> iceNext, flush |-> FALSE])
            /\ UNCHANGED iceCandidateBufferRef
    /\ UNCHANGED <<icePc, iceHandler, iceApplied, iceDescs>>

\* handleAnswer (useWebRTC.ts:553-568) and handleIncomingOffer without a
\* collision (useWebRTC.ts:588-622) up to the await of setRemoteDescription:
\* the buffer is cleared.
IceDescriptionArrives(kind) ==
    /\ IceOnly
    /\ icePc.exists
    /\ iceHandler.at = "idle"
    /\ iceDescs < MaxDescriptions
    /\ iceDescs' = iceDescs + 1
    /\ iceCandidateBufferRef' = <<>>
    /\ iceOps' = Append(iceOps, [op |-> "SRD", candidate |-> 0, flush |-> FALSE])
    /\ iceHandler' = [NoIceHandler EXCEPT !.at = "srd", !.kind = kind]
    /\ UNCHANGED <<icePc, iceApplied, iceNext, iceLate>>

\* What the handler does when the candidates of its loop are used up
\* (useWebRTC.ts:577, 629-634): handleIncomingOffer goes on to its answer.
IceFlushDone(ops) ==
    IF iceHandler.kind = "offer"
    THEN /\ iceHandler' = [iceHandler EXCEPT !.at = "answer", !.items = <<>>, !.pos = 0]
         /\ iceOps' = Append(ops, [op |-> "SLD", candidate |-> 0, flush |-> FALSE])
    ELSE /\ iceHandler' = NoIceHandler
         /\ iceOps' = ops

\* setRemoteDescription resolves; the handler starts its loop over the
\* buffer (useWebRTC.ts:568-575, 622-627).
IceRemoteDescriptionSet ==
    /\ IceOnly
    /\ iceOps # <<>>
    /\ Head(iceOps).op = "SRD"
    /\ icePc' = [icePc EXCEPT !.remoteDescription = TRUE]
    /\ IF iceCandidateBufferRef # <<>>
       THEN /\ iceHandler' = [iceHandler EXCEPT !.at = "flush",
                                               !.items = iceCandidateBufferRef, !.pos = 1]
            /\ iceOps' = Append(Tail(iceOps), [op |-> "add",
                                               candidate |-> iceCandidateBufferRef[1],
                                               flush |-> TRUE])
       ELSE IceFlushDone(Tail(iceOps))
    /\ UNCHANGED <<iceCandidateBufferRef, iceApplied, iceNext, iceLate, iceDescs>>

\* An addIceCandidate of the loop resolves; the loop goes on to the next
\* buffered candidate or ends and empties the buffer (useWebRTC.ts:574-577,
\* 626-629).
IceFlushStep ==
    /\ IceOnly
    /\ iceOps # <<>>
    /\ Head(iceOps).op = "add"
    /\ Head(iceOps).flush
    /\ iceApplied' = Append(iceApplied, Head(iceOps).candidate)
    /\ IF iceHandler.pos < Len(iceHandler.items)
       THEN /\ iceHandler' = [iceHandler EXCEPT !.pos = @ + 1]
            /\ iceOps' = Append(Tail(iceOps), [op |-> "add",
                                               candidate |-> iceHandler.items[iceHandler.pos + 1],
                                               flush |-> TRUE])
            /\ UNCHANGED iceCandidateBufferRef
       ELSE /\ iceCandidateBufferRef' = <<>>
            /\ IceFlushDone(Tail(iceOps))
    /\ UNCHANGED <<icePc, iceNext, iceLate, iceDescs>>

\* The addIceCandidate of handleICECandidate resolves (useWebRTC.ts:664-666).
IceLateCandidateAdded ==
    /\ IceOnly
    /\ iceOps # <<>>
    /\ Head(iceOps).op = "add"
    /\ ~Head(iceOps).flush
    /\ iceApplied' = Append(iceApplied, Head(iceOps).candidate)
    /\ iceOps' = Tail(iceOps)
    /\ UNCHANGED <<iceCandidateBufferRef, icePc, iceHandler, iceNext, iceLate, iceDescs>>

\* handleIncomingOffer: the answer is set and sent (useWebRTC.ts:633-643).
IceAnswerSent ==
    /\ IceOnly
    /\ iceOps # <<>>
    /\ Head(iceOps).op = "SLD"
    /\ iceOps' = Tail(iceOps)
    /\ iceHandler' = NoIceHandler
    /\ UNCHANGED <<iceCandidateBufferRef, icePc, iceApplied, iceNext, iceLate, iceDescs>>

IceNext ==
    \/ IceCreatePeerConnection
    \/ IceCandidateArrives(MaxOrdered)
    \/ \E kind \in {"answer", "offer"} : IceDescriptionArrives(kind)
    \/ IceRemoteDescriptionSet
    \/ IceFlushStep
    \/ IceLateCandidateAdded
    \/ IceAnswerSent

SpecIce == IceInit /\ [][IceNext]_vars

\* The candidates that arrive before any remote description does.
IceOverflowNext ==
    \/ IceCreatePeerConnection
    \/ IceCandidateArrives(MaxFeed)

SpecIceOverflow == IceInit /\ [][IceOverflowNext]_vars

\* ------------------------------------------------------------------------
\* SpecIceOverflow, SpecIce: properties
\* ------------------------------------------------------------------------

\* The m most recent of the candidates 1..n, in arrival order.
MostRecent(m, n) == [i \in 1..m |-> n - m + i]

\* C6 - Overflow policy.  With N candidates received and no remote
\* description set, the buffer holds the min(N, 50) most recently received
\* candidates in arrival order; its length never exceeds 50.
C6_OverflowKeepsMostRecent ==
    /\ Len(iceCandidateBufferRef) <= 50
    /\ (~icePc.remoteDescription /\ iceDescs = 0) =>
          iceCandidateBufferRef = MostRecent(Min(iceNext - 1, 50), iceNext - 1)

\* Sixty candidates were fed: the oldest ten are gone.
C6_Witness ==
    /\ iceNext - 1 = 60
    /\ ~icePc.remoteDescription
    /\ Len(iceCandidateBufferRef) = 50
    /\ iceCandidateBufferRef[1] = 11
    /\ iceCandidateBufferRef[50] = 60

\* C7 - Candidate arrival order, as the claim states it: the connection
\* applies the candidates in the order in which they arrived (a candidate
\* with a smaller number is never applied after one with a larger number).
C7_AppliedInArrivalOrder ==
    \A i, j \in 1..Len(iceApplied) : i < j => iceApplied[i] < iceApplied[j]

\* ------------------------------------------------------------------------
\* SpecMedia: src/modules/video/useWebRTC.ts, media controls
\* ------------------------------------------------------------------------

\* The hook with its connection to the SFU established: startConnection has
\* captured the microphone, added its track to the connection and sent the
\* offer, the SFU has answered and the transport is up (useWebRTC.ts:216-227,
\* 254-257, 334-340, 505-530).  wsClient is set throughout SpecMedia.
MdEstablished ==
    /\ mdLocalStream = TRUE
    /\ hasVideoTrack = FALSE
    /\ isAudioMuted = FALSE
    /\ mdConnectionState = "connected"
    /\ mdError = "none"
    /\ mdRendered = [localStream |-> TRUE, hasVideoTrack |-> FALSE, isAudioMuted |-> FALSE]
    /\ mdTracks = [audio |-> TRUE, audioEnabled |-> TRUE, video |-> 0, live |-> TRUE]
    /\ mdPc = [NoMdPc EXCEPT !.state = "open", !.audioSender = TRUE]
    /\ mdMakingOfferRef = FALSE
    /\ mdNegotiation = NoMdNegotiation
    /\ mdCamera = 0
    /\ mdNet = [toSfu |-> <<>>, toClient |-> <<>>]
    /\ mdHist = NoMdHist

MdInit ==
    /\ MdIdle \/ MdEstablished
    /\ MsIdle
    /\ GaIdle
    /\ users = <<1, 2>>
    /\ PnIdle
    /\ wsAtMount = FALSE
    /\ RcIdle
    /\ IceIdle
    /\ WcIdle
    /\ TgIdle
    /\ SfIdle
    /\ ClIdle

\* The track changes that the newest offer of the connection describes: the
\* offer createOffer has made, or else the local description.
Described(pc, negotiation) ==
    IF negotiation.at \in {"setLocalDescription", "gathering"}
    THEN negotiation.offer
    ELSE pc.offered

\* History of a track change: it joins the changes that wait for an offer
\* when there are any.
Changed(h, kind, pc, negotiation) ==
    LET j == IF pc.want # Described(pc, negotiation) THEN 1 ELSE 0
    IN  IF kind = "add"
        THEN [h EXCEPT !.added = @ + 1, !.joined = @ + j]
        ELSE [h EXCEPT !.removed = @ + 1, !.joined = @ + j]

\* React renders the component: the callbacks are made anew and close over
\* the state as it is now (the dependency lists of useWebRTC.ts:733, 765,
\* 779, 792, 803).
MdRender ==
    /\ mdRendered # [localStream |-> mdLocalStream, hasVideoTrack |-> hasVideoTrack,
                     isAudioMuted |-> isAudioMuted]
    /\ mdRendered' = [localStream |-> mdLocalStream, hasVideoTrack |-> hasVideoTrack,
                      isAudioMuted |-> isAudioMuted]
    /\ UNCHANGED <<mdLocalStream, hasVideoTrack, isAudioMuted, mdConnectionState, mdError,
                   mdTracks, mdPc, mdMakingOfferRef, mdNegotiation, mdCamera, mdNet, mdHist>>
    /\ MdOnly

\* enableVideo up to its await of getUserMedia (useWebRTC.ts:700-717).
MdEnableVideo ==
    /\ IF ~mdRendered.localStream \/ mdPc.state # "open"
       THEN UNCHANGED mdCamera
       ELSE IF mdRendered.hasVideoTrack
       THEN UNCHANGED mdCamera
       ELSE /\ mdHist.added + mdCamera < MaxVideoCalls
            /\ mdCamera' = mdCamera + 1
    /\ UNCHANGED <<mdLocalStream, hasVideoTrack, isAudioMuted, mdConnectionState, mdError,
                   mdRendered, mdTracks, mdPc, mdMakingOfferRef, mdNegotiation, mdNet,
                   mdHist>>
    /\ MdOnly

\* getUserMedia resolves with a camera track; enableVideo adds it to the
\* connection it captured and to the stream (useWebRTC.ts:718-732).
\* pc.addTrack throws InvalidStateError on a connection that was closed
\* meanwhile, which the catch reports as a camera failure.
MdCameraGranted ==
    /\ mdCamera > 0
    /\ mdCamera' = mdCamera - 1
    /\ IF mdPc.state = "closed"
       THEN /\ mdError' = "Failed to start camera. Please check permissions."
            /\ UNCHANGED <<mdPc, mdTracks, hasVideoTrack, mdHist>>
       ELSE /\ mdPc' = [mdPc EXCEPT !.videoSenders = @ + 1, !.want = @ + 1]
            /\ mdTracks' = [mdTracks EXCEPT !.video = @ + 1]
            /\ hasVideoTrack' = TRUE
            /\ mdHist' = Changed(mdHist, "add", mdPc, mdNegotiation)
            /\ UNCHANGED mdError
    /\ UNCHANGED <<mdLocalStream, isAudioMuted, mdConnectionState, mdRendered,
                   mdMakingOfferRef, mdNegotiation, mdNet>>
    /\ MdOnly

\* getUserMedia rejects; the catch of enableVideo (useWebRTC.ts:729-732).
MdCameraDenied ==
    /\ mdCamera > 0
    /\ mdCamera' = mdCamera - 1
    /\ mdError' = "Failed to start camera. Please check permissions."
    /\ UNCHANGED <<mdLocalStream, hasVideoTrack, isAudioMuted, mdConnectionState,
                   mdRendered, mdTracks, mdPc, mdMakingOfferRef, mdNegotiation, mdNet,
                   mdHist>>
    /\ MdOnly

\* disableVideo (useWebRTC.ts:739-765).  The sender of the stream's first
\* video track is there whenever the track is: the two are added together.
MdDisableVideo ==
    /\ IF ~mdRendered.localStream \/ mdPc.state # "open"
       THEN UNCHANGED <<mdPc, mdTracks, hasVideoTrack, mdHist>>
       ELSE IF ~mdRendered.hasVideoTrack
       THEN UNCHANGED <<mdPc, mdTracks, hasVideoTrack, mdHist>>
       ELSE /\ IF mdTracks.video > 0
               THEN /\ mdPc' = [mdPc EXCEPT !.videoSenders = @ - 1, !.want = @ + 1]
                    /\ mdTracks' = [mdTracks EXCEPT !.video = @ - 1]
                    /\ mdHist' = Changed(mdHist, "remove", mdPc, mdNegotiation)
               ELSE UNCHANGED <<mdPc, mdTracks, mdHist>>
            /\ hasVideoTrack' = FALSE
    /\ UNCHANGED <<mdLocalStream, isAudioMuted, mdConnectionState, mdError, mdRendered,
                   mdMakingOfferRef, mdNegotiation, mdCamera, mdNet>>
    /\ MdOnly

\* A mute that takes the audio track out of the stream and of the
\* connection instead of disabling it.
SetEnabledByRemoval(media, value) ==
    [media EXCEPT !.tracks.audio = value, !.pc.audioSender = value]

\* audioTrack.enabled = value, on the stream and the connection that hold
\* the track (useWebRTC.ts:776, 789).
SetEnabled(media, value) == [media EXCEPT !.tracks.audioEnabled = value]

\* muteAudio and unmuteAudio (useWebRTC.ts:771-792)
MdSetMuted(muted) ==
    /\ IF mdRendered.localStream /\ mdTracks.audio
       THEN LET media == SetEnabled([tracks |-> mdTracks, pc |-> mdPc], ~muted)
            IN  /\ mdTracks' = media.tracks
                /\ mdPc' = media.pc
                /\ isAudioMuted' = muted
       ELSE UNCHANGED <<mdTracks, mdPc, isAudioMuted>>
    /\ UNCHANGED <<mdLocalStream, hasVideoTrack, mdConnectionState, mdError, mdRendered,
                   mdMakingOfferRef, mdNegotiation, mdCamera, mdNet, mdHist>>
    /\ MdOnly

MdMuteAudio == MdSetMuted(TRUE)

MdUnmuteAudio == MdSetMuted(FALSE)

\* toggleAudio (useWebRTC.ts:797-803)
MdToggleAudio ==
    IF mdRendered.isAudioMuted
    THEN MdSetMuted(FALSE)
    ELSE MdSetMuted(TRUE)

\* The browser has a negotiationneeded event to fire: the connection has
\* track changes that its local description does not cover, it is in state
\* stable with an empty operations chain, and its negotiation-needed flag is
\* not set yet (the flag is why changes made before the event fires share
\* one event).
EventDue(pc) ==
    /\ pc.state = "open"
    /\ pc.ops = <<>>
    /\ pc.sig = "stable"
    /\ pc.want # pc.offered
    /\ ~pc.need

\* A handler that takes every event for one that arrives while an offer is
\* being made.
AlreadyMakingOfferAlways == TRUE

\* if (makingOfferRef.current) (useWebRTC.ts:381)
AlreadyMakingOffer == mdMakingOfferRef

\* pc.onnegotiationneeded up to its first await (useWebRTC.ts:379-393).
MdNegotiationNeeded ==
    /\ EventDue(mdPc)
    /\ IF AlreadyMakingOffer
       THEN /\ mdPc' = [mdPc EXCEPT !.need = TRUE]
            /\ mdHist' = [mdHist EXCEPT !.events = @ + 1, !.skipped = @ + 1]
            /\ UNCHANGED <<mdMakingOfferRef, mdNegotiation>>
       ELSE /\ mdMakingOfferRef' = TRUE
            /\ mdPc' = [mdPc EXCEPT !.need = TRUE, !.ops = <<"createOffer">>]
            /\ mdNegotiation' = [at |-> "createOffer", offer |-> 0]
            /\ mdHist' = [mdHist EXCEPT !.events = @ + 1]
    /\ UNCHANGED <<mdLocalStream, hasVideoTrack, isAudioMuted, mdConnectionState, mdError,
                   mdRendered, mdTracks, mdCamera, mdNet>>
    /\ MdOnly

\* The catch of onnegotiationneeded (useWebRTC.ts:409-412): an operation on
\* a closed connection rejects.
MdNegotiationFailed ==
    /\ mdMakingOfferRef' = FALSE
    /\ mdNegotiation' = NoMdNegotiation
    /\ UNCHANGED <<mdPc, mdHist>>

\* createOffer settles: the offer describes the tracks the connection has
\* at this moment; the handler goes on to setLocalDescription
\* (useWebRTC.ts:393-394).
MdOfferCreated ==
    /\ mdNegotiation.at = "createOffer"
    /\ IF mdPc.state = "closed"
       THEN MdNegotiationFailed
       ELSE /\ mdNegotiation' = [at |-> "setLocalDescription", offer |-> mdPc.want]
            /\ mdPc' = [mdPc EXCEPT !.ops = <<"setLocalDescription">>]
            /\ UNCHANGED <<mdMakingOfferRef, mdHist>>
    /\ UNCHANGED <<mdLocalStream, hasVideoTrack, isAudioMuted, mdConnectionState, mdError,
                   mdRendered, mdTracks, mdCamera, mdNet>>
    /\ MdOnly

\* setLocalDescription(offer) settles; the handler goes on to
\* waitForIceGathering (useWebRTC.ts:394-397).
MdLocalDescriptionSet ==
    /\ mdNegotiation.at = "setLocalDescription"
    /\ IF mdPc.state = "closed"
       THEN MdNegotiationFailed
       ELSE /\ mdPc' = [mdPc EXCEPT !.sig = "have-local-offer",
                                    !.offered = mdNegotiation.offer, !.ops = <<>>]
            /\ mdNegotiation' = [mdNegotiation EXCEPT !.at = "gathering"]
            /\ UNCHANGED <<mdMakingOfferRef, mdHist>>
    /\ UNCHANGED <<mdLocalStream, hasVideoTrack, isAudioMuted, mdConnectionState, mdError,
                   mdRendered, mdTracks, mdCamera, mdNet>>
    /\ MdOnly

\* waitForIceGathering resolves, by the gathering state or by its timeout,
\* on a closed connection too; the handler sends the offer
\* (useWebRTC.ts:112-143, 397-408).
MdGatheringDone ==
    /\ mdNegotiation.at = "gathering"
    /\ mdMakingOfferRef' = FALSE
    /\ mdNet' = [mdNet EXCEPT !.toSfu = Append(@, mdNegotiation.offer)]
    /\ mdHist' = [mdHist EXCEPT !.sent = @ + 1]
    /\ mdNegotiation' = NoMdNegotiation
    /\ UNCHANGED <<mdLocalStream, hasVideoTrack, isAudioMuted, mdConnectionState, mdError,
                   mdRendered, mdTracks, mdPc, mdCamera>>
    /\ MdOnly

\* The SFU answers the next offer.  In SpecMedia it sends no offer of its
\* own.
MdSfuAnswers ==
    /\ mdNet.toSfu # <<>>
    /\ mdNet' = [toSfu |-> Tail(mdNet.toSfu), toClient |-> Append(mdNet.toClient, Head(mdNet.toSfu))]
    /\ UNCHANGED <<mdLocalStream, hasVideoTrack, isAudioMuted, mdConnectionState, mdError,
                   mdRendered, mdTracks, mdPc, mdMakingOfferRef, mdNegotiation, mdCamera,
                   mdHist>>
    /\ MdOnly

\* An answer is delivered: handleAnswer with the setRemoteDescription it
\* awaits (useWebRTC.ts:553-583, 869-871).  The answer is applied in
\* have-local-offer, where it takes the connection back to stable and clears
\* the negotiation-needed flag; in another state the browser rejects it.
MdAnswerArrives ==
    /\ mdNet.toClient # <<>>
    /\ mdNet' = [mdNet EXCEPT !.toClient = Tail(@)]
    /\ IF mdPc.state # "open"
       THEN UNCHANGED <<mdPc, mdError>>
       ELSE IF mdPc.sig = "have-local-offer"
       THEN /\ mdPc' = [mdPc EXCEPT !.sig = "stable", !.need = FALSE]
            /\ UNCHANGED mdError
       ELSE /\ mdError' = "InvalidStateError"
            /\ UNCHANGED mdPc
    /\ UNCHANGED <<mdLocalStream, hasVideoTrack, isAudioMuted, mdConnectionState,
                   mdRendered, mdTracks, mdMakingOfferRef, mdNegotiation, mdCamera, mdHist>>
    /\ MdOnly

\* stopConnection with the cleanupConnection it calls (useWebRTC.ts:422-450,
\* 675-683).  Both close over localStream.
MdStopConnection ==
    /\ mdPc' = IF mdPc.state = "open"
               THEN [mdPc EXCEPT !.state = "closed", !.ops = <<>>]
               ELSE mdPc
    /\ mdMakingOfferRef' = FALSE
    /\ mdConnectionState' = "idle"
    /\ mdError' = "none"
    /\ IF mdRendered.localStream
       THEN /\ mdTracks' = [mdTracks EXCEPT !.live = FALSE]
            /\ mdLocalStream' = FALSE
       ELSE UNCHANGED <<mdTracks, mdLocalStream>>
    /\ UNCHANGED <<hasVideoTrack, isAudioMuted, mdRendered, mdNegotiation, mdCamera, mdNet,
                   mdHist>>
    /\ MdOnly

MdNext ==
    \/ MdRender
    \/ MdEnableVideo
    \/ MdCameraGranted
    \/ MdCameraDenied
    \/ MdDisableVideo
    \/ MdMuteAudio
    \/ MdUnmuteAudio
    \/ MdToggleAudio
    \/ MdNegotiationNeeded
    \/ MdOfferCreated
    \/ MdLocalDescriptionSet
    \/ MdGatheringDone
    \/ MdSfuAnswers
    \/ MdAnswerArrives
    \/ MdStopConnection

SpecMedia == MdInit /\ [][MdNext]_vars

\* ------------------------------------------------------------------------
\* SpecMedia: properties
\* ------------------------------------------------------------------------

\* A step of muteAudio, unmuteAudio or toggleAudio.
MuteStep == MdMuteAudio \/ MdUnmuteAudio \/ MdToggleAudio

\* C8 - Mute is non-disruptive.  A step of muteAudio, unmuteAudio or
\* toggleAudio, in any state, changes nothing but the enabled flag of the
\* audio track and isAudioMuted: no signaling message is sent, no
\* negotiation-needed event becomes due or is fired, no track is added or
\* removed, and connectionState and the connection stay as they are.
C8_MuteIsNonDisruptive ==
    [][MuteStep =>
          /\ UNCHANGED <<mdPc, mdNet, mdHist, mdConnectionState, mdMakingOfferRef,
                         mdNegotiation, mdCamera, hasVideoTrack, mdLocalStream, mdError>>
          /\ mdTracks' = [mdTracks EXCEPT !.audioEnabled = mdTracks'.audioEnabled]
          /\ EventDue(mdPc') <=> EventDue(mdPc)]_vars

\* The user muted while the camera was on and a renegotiation in flight.
C8_Witness ==
    /\ isAudioMuted
    /\ ~mdTracks.audioEnabled
    /\ mdTracks.audio
    /\ mdPc.state = "open"
    /\ mdPc.sig = "have-local-offer"
    /\ mdPc.audioSender
    /\ hasVideoTrack
    /\ mdConnectionState = "connected"

\* The connection is up and nothing is left to do: no call waits for the
\* camera, no event is due, the handler is idle, no message is in flight.
MdQuiescent ==
    /\ mdPc.state = "open"
    /\ mdPc.sig = "stable"
    /\ mdCamera = 0
    /\ ~EventDue(mdPc)
    /\ mdNegotiation.at = "idle"
    /\ mdNet = [toSfu |-> <<>>, toClient |-> <<>>]

\* enableVideo has added the camera track, a disableVideo after it has
\* removed it, and all that followed from the two has happened.
EnabledThenDisabled ==
    /\ mdHist.added = 1
    /\ mdHist.removed = 1
    /\ MdQuiescent

MsInit ==
    /\ MsIdle
    /\ users = <<1, 2>>
    /\ PnIdle
    /\ wsAtMount = FALSE
    /\ RcIdle
    /\ IceIdle
    /\ MdIdle
    /\ GaIdle
    /\ WcIdle
    /\ TgIdle
    /\ SfIdle
    /\ ClIdle

\* createPeer for every user of S that has no entry in peersRef, and
\* peersRef.current.set of the entry in state CONNECTING
\* (useWebRTC-P2P.ts:729-750, 1024-1039).
CreatePeers(peers, S) ==
    [u \in MsOthers |-> IF u \in S /\ peers[u] = "none" THEN "connecting" ELSE peers[u]]

\* The 'close' handler of a link after its entry is deleted
\* (useWebRTC-P2P.ts:676-679).
AfterClose(peers, state) ==
    IF \A u \in MsOthers : peers[u] = "none" THEN "disconnected" ELSE state

\* ROOM_USER_JOINED: a user enters the roster (RoomContext.tsx:159).
MsUserJoins(u) ==
    /\ u \notin msUsers
    /\ msUsers' = msUsers \cup {u}
    /\ msGone' = msGone \ {u}
    /\ msDirty' = TRUE
    /\ UNCHANGED <<msRendered, peersRef, remoteStreams, localStreamRef, msConnectionState,
                   msError, msStarts>>
    /\ msJoined' = msJoined \cup {u}
    /\ MsOnly

\* ROOM_USER_LEFT: a user is removed from the roster (RoomContext.tsx:167-169).
MsUserLeaves(u) ==
    /\ u \in msUsers
    /\ msUsers' = msUsers \ {u}
    /\ msDirty' = TRUE
    /\ UNCHANGED <<msRendered, peersRef, remoteStreams, localStreamRef, msConnectionState,
                   msError, msStarts, msGone>>
    /\ msJoined' = msJoined \ {u}
    /\ MsOnly

\* React renders the hook and runs its effects.  The callbacks are made
\* anew over the state as it is now (useWebRTC-P2P.ts:536-537, 758, 802),
\* the message effect subscribes the new handleSignal (963-994), and the
\* roster effect, whose dependency partners is a new array in every render,
\* runs (999-1040): it destroys and deletes the links of the users that are
\* no partners any more and creates the links that are missing.  destroy()
\* makes the link emit 'close' before any other event is handled; its
\* handler (663-680) finds the entry deleted.  A removal is processed here
\* when the effect passes its guard; msGone records the processed removals
\* of users whose link was connected.
MsRender ==
    /\ msDirty
    /\ msRendered' = [users |-> msUsers, connectionState |-> msConnectionState]
    /\ IF localStreamRef
       THEN LET left == {u \in MsOthers : peersRef[u] # "none" /\ u \notin msUsers}
                kept == [u \in MsOthers |-> IF u \in left THEN "none" ELSE peersRef[u]]
                peers == CreatePeers(kept, msUsers)
            IN  /\ peersRef' = peers
                /\ remoteStreams' = remoteStreams \ left
                /\ msConnectionState' = IF left # {}
                                        THEN AfterClose(peers, msConnectionState)
                                        ELSE msConnectionState
                /\ msDirty' = (left # {})
                /\ msGone' = msGone \cup {u \in left : peersRef[u] = "connected"}
       ELSE /\ msDirty' = FALSE
            /\ UNCHANGED <<peersRef, remoteStreams, msConnectionState, msGone>>
    /\ UNCHANGED <<msUsers, localStreamRef, msError, msStarts>>
    /\ msJoined' = msJoined \ {v \in MsOthers : peersRef[v] = "none" /\ peersRef'[v] # "none"}
    /\ MsOnly

\* startConnection up to its await (useWebRTC-P2P.ts:698-722), and all of it
\* when the local stream is there (723-752).  Its callers are the effect and
\* the Connect button of PIPVideoWindow, both under hasPartner &&
\* !isConnected && !isConnecting of the last render (PIPVideoWindow.tsx:
\* 116-121, 317-325), which makes hasPartners of line 704 true.
MsStartConnection ==
    /\ msRendered.users # {}
    /\ msRendered.connectionState \notin {"connecting", "connected"}
    /\ msConnectionState' = "connecting"
    /\ msError' = "none"
    /\ msDirty' = TRUE
    /\ IF localStreamRef
       THEN /\ peersRef' = CreatePeers(peersRef, msRendered.users)
            /\ UNCHANGED msStarts
       ELSE /\ Len(msStarts) < MaxStarts
            /\ msStarts' = Append(msStarts, msRendered.users)
            /\ UNCHANGED peersRef
    /\ UNCHANGED <<msUsers, msRendered, remoteStreams, localStreamRef, msGone>>
    /\ msJoined' = msJoined \ {v \in MsOthers : peersRef[v] = "none" /\ peersRef'[v] # "none"}
    /\ MsOnly

\* getUserMedia resolves for the i-th waiting call: initializeLocalStream
\* stores the stream (useWebRTC-P2P.ts:555-559) and startConnection goes on
\* with the partners it was called with (724-752).
MsMediaGranted(i) ==
    /\ i \in 1..Len(msStarts)
    /\ localStreamRef' = TRUE
    /\ peersRef' = CreatePeers(peersRef, msStarts[i])
    /\ msStarts' = RemoveAt(msStarts, i)
    /\ msDirty' = TRUE
    /\ UNCHANGED <<msUsers, msRendered, remoteStreams, msConnectionState, msError, msGone>>
    /\ msJoined' = msJoined \ {v \in MsOthers : peersRef[v] = "none" /\ peersRef'[v] # "none"}
    /\ MsOnly

\* getUserMedia rejects for the i-th waiting call (useWebRTC-P2P.ts:560-576,
\* 753-757).
MsMediaDenied(i) ==
    /\ i \in 1..Len(msStarts)
    /\ msStarts' = RemoveAt(msStarts, i)
    /\ msConnectionState' = "failed"
    /\ msError' = "Failed to access media"
    /\ msDirty' = TRUE
    /\ UNCHANGED <<msUsers, msRendered, peersRef, remoteStreams, localStreamRef, msGone>>
    /\ UNCHANGED msJoined
    /\ MsOnly

\* A signal of user u for this client is delivered: the onMessage callback
\* and handleSignal (useWebRTC-P2P.ts:976-985, 763-802).  handleSignal looks
\* the sender up in the users of the render it was made in.  Only the branch
\* that creates a link changes the state of the hook: with an entry the
\* signal goes to the link, without a local stream or for an unknown user it
\* is dropped.
MsSignalArrives(u) ==
    /\ peersRef[u] = "none"
    /\ localStreamRef
    /\ u \in msRendered.users
    /\ peersRef' = [peersRef EXCEPT ![u] = "connecting"]
    /\ UNCHANGED <<msUsers, msRendered, msDirty, remoteStreams, localStreamRef,
                   msConnectionState, msError, msStarts, msGone>>
    /\ msJoined' = msJoined \ {v \in MsOthers : peersRef[v] = "none" /\ peersRef'[v] # "none"}
    /\ MsOnly

\* The link to u emits 'stream' (useWebRTC-P2P.ts:617-635).  A link gets
\* the stream of a user that is in the room.
MsPeerStream(u) ==
    /\ peersRef[u] \in {"connecting", "connected"}
    /\ u \in msUsers
    /\ remoteStreams' = remoteStreams \cup {u}
    /\ peersRef' = [peersRef EXCEPT ![u] = "connected"]
    /\ msConnectionState' = "connected"
    /\ msDirty' = TRUE
    /\ UNCHANGED <<msUsers, msRendered, localStreamRef, msError, msStarts, msGone>>
    /\ UNCHANGED msJoined
    /\ MsOnly

\* The link to u emits 'connect' (useWebRTC-P2P.ts:638-648).
MsPeerConnect(u) ==
    /\ peersRef[u] = "connecting"
    /\ u \in msUsers
    /\ peersRef' = [peersRef EXCEPT ![u] = "connected"]
    /\ msConnectionState' = "connected"
    /\ msError' = "none"
    /\ msDirty' = TRUE
    /\ UNCHANGED <<msUsers, msRendered, remoteStreams, localStreamRef, msStarts, msGone>>
    /\ UNCHANGED msJoined
    /\ MsOnly

\* The link to u fails or is closed by the other side.  SimplePeer destroys
\* a link that fails: it emits 'error', when there is one, and then 'close'
\* (useWebRTC-P2P.ts:651-680).
MsPeerClosed(u, failed) ==
    /\ peersRef[u] # "none"
    /\ LET peers == [peersRef EXCEPT ![u] = "none"]
       IN  /\ peersRef' = peers
           /\ msConnectionState' = AfterClose(peers, msConnectionState)
    /\ remoteStreams' = remoteStreams \ {u}
    /\ msError' = IF failed THEN "Connection error" ELSE msError
    /\ msDirty' = TRUE
    /\ UNCHANGED <<msUsers, msRendered, localStreamRef, msStarts, msGone>>
    /\ UNCHANGED msJoined
    /\ MsOnly

\* stopConnection (useWebRTC-P2P.ts:807-831), called when the video window
\* is closed (PIPVideoWindow.tsx:222).  The 'close' handlers of the
\* destroyed links run after it and set DISCONNECTED when there was a link.
MsStopConnection ==
    /\ peersRef' = [u \in MsOthers |-> "none"]
    /\ localStreamRef' = FALSE
    /\ remoteStreams' = {}
    /\ msConnectionState' = IF \E u \in MsOthers : peersRef[u] # "none"
                            THEN "disconnected"
                            ELSE "idle"
    /\ msError' = "none"
    /\ msDirty' = TRUE
    /\ UNCHANGED <<msUsers, msRendered, msStarts, msGone>>
    /\ UNCHANGED msJoined
    /\ MsOnly

MsNext ==
    \/ \E u \in MsOthers : MsUserJoins(u)
    \/ \E u \in MsOthers : MsUserLeaves(u)
    \/ MsRender
    \/ MsStartConnection
    \/ \E i \in 1..MaxStarts : MsMediaGranted(i)
    \/ \E i \in 1..MaxStarts : MsMediaDenied(i)
    \/ \E u \in MsOthers : MsSignalArrives(u)
    \/ \E u \in MsOthers : MsPeerStream(u)
    \/ \E u \in MsOthers : MsPeerConnect(u)
    \/ \E u \in MsOthers, failed \in BOOLEAN : MsPeerClosed(u, failed)
    \/ MsStopConnection

SpecMesh == MsInit /\ [][MsNext]_vars

\* ------------------------------------------------------------------------
\* SpecMesh: properties
\* ------------------------------------------------------------------------

\* C10 - Roster removal.  Once the removal of a partner whose link was
\* connected has been processed with local media initialized, the partner
\* has no PeerLink and no entry in remoteStreams, and none is created for
\* as long as the user has not re-entered the roster.
C10_NoLinkForDepartedUser ==
    \A u \in msGone : peersRef[u] = "none" /\ u \notin remoteStreams

\* C11 - Roster addition.  Whenever a roster change is processed with local
\* media initialized, every user that entered the roster since (one that
\* left earlier included) gets a fresh PeerLink in state connecting, with
\* no call of the user.
C11_FreshLinkOnAddition ==
    [][(MsRender /\ localStreamRef) =>
          \A u \in msJoined \cap msUsers :
              /\ u \notin msJoined'
              /\ peersRef'[u] = "connecting"]_vars

\* C12 - One handle per participant.  In every reachable state at most one
\* open connection to the remote side exists: no connection was replaced in
\* peerConnectionRef without being closed while another one is open.
C12_OneOpenHandle == ~(peerConnectionRef.exists /\ rcHist.unclosed)

\* C13 - Manual reconnect.  A call of reconnect() with a connection and a
\* running local stream closes the connection, leaves the local stream
\* running, and puts the connection state back into connecting so that a
\* new attempt starts.
C13_ReconnectKeepsMediaAndRestarts ==
    [][(RcUserReconnect /\ peerConnectionRef.exists /\ localStream) =>
          /\ ~peerConnectionRef'.exists
          /\ localStream'
          /\ connectionState' = "connecting"]_vars

\* C14 - Disconnect grace period.  After the transport reports
\* disconnected, no timer makes an ICE restart before the 2 s timer of that
\* disconnection has fired (the timers fire in the order they were set, so
\* the timer of the last disconnection is pending for as long as any is),
\* and the timers make at most one ICE restart for one disconnection.
C14_OneRestartAfterGrace ==
    (peerConnectionRef.exists /\ peerConnectionRef.conn = "disconnected") =>
        /\ peerConnectionRef.viaGrace > 0 => peerConnectionRef.grace = 0
        /\ peerConnectionRef.viaGrace <= 1

\* C15 - Every failure path ends in a defined recovery state.  When an
\* await of startConnection rejects (local media, createOffer,
\* setLocalDescription), the connection state that results is failed or
\* reconnecting.
C15_FailureEndsInRecoveryState ==
    [][(\E i \in 1..MaxInFlight : RcStartFails(i)) =>
          connectionState' \in {"failed", "reconnecting"}]_vars

\* C16 - Errors surface only after retry exhaustion.  A transport failure
\* that happens while reconnection attempts remain does not make the error
\* of the hook non-null.
C16_NoErrorWhileAttemptsRemain ==
    [][((\E kind \in {"ice", "dtls"} : RcTransportFailed(kind))
            /\ reconnectAttemptsRef < maxReconnectAttempts) =>
          error' = "none"]_vars

\* C17 - A drop of the signaling channel preserves the links.  When the
\* signaling channel disconnects, the connection stays as it is (open, none
\* closed) and the connection state becomes reconnecting.
C17_SignalingDropKeepsHandle ==
    [][RcSignalingDisconnect =>
          /\ peerConnectionRef' = peerConnectionRef
          /\ connectionState' = "reconnecting"]_vars

\* C18 - Device-acquisition failures are reported.  When startConnection
\* has no local stream and its await rejects (getUserMedia is the first),
\* the error of the hook is non-null once startConnection has settled, and
\* no connection exists.
C18_AcquisitionFailureReported ==
    [][((\E i \in 1..MaxInFlight : RcStartFails(i)) /\ ~localStream) =>
          /\ error' # "none"
          /\ ~peerConnectionRef'.exists]_vars

\* C19 - Self-originated messages are ignored.  When a message that the
\* client itself has sent comes back to it, no negotiation state of any
\* client changes, no reply is sent, and no connection is created or
\* changed: the step changes nothing but the record that the echo arrived.
C19_SelfMessageIgnored ==
    [][(\E c \in Clients : PnEchoArrives(c)) =>
          /\ UNCHANGED <<users, pnStart, pnPartner, politeRef, makingOfferRef,
                         ignoreOfferRef, isSettingRemoteAnswerPendingRef,
                         currentIceGenerationRef, pnLocalStream, isConnecting,
                         isConnected, pnError, pnPc, pnOps, pnNet, pnFailures>>
          /\ pnHist' = [pnHist EXCEPT !.echo = pnHist'.echo]]_vars

\* The own offer of a client has come back to it while the client waits
\* for the answer to it.
C19_Witness ==
    \E c \in Clients :
        /\ pnPc[c].exists
        /\ pnPc[c].sig = "have-local-offer"
        /\ pnPc[c].local \in pnHist.offersSent
        /\ pnHist.echo[c] = NoDesc

\* ------------------------------------------------------------------------
\* SpecGather: src/modules/video/useWebRTC.ts, waitForIceGathering
\* ------------------------------------------------------------------------

GaInit ==
    /\ GaIdle
    /\ users = <<1, 2>>
    /\ wsAtMount = FALSE
    /\ PnIdle
    /\ RcIdle
    /\ IceIdle
    /\ MdIdle
    /\ MsIdle
    /\ WcIdle
    /\ TgIdle
    /\ SfIdle
    /\ ClIdle

\* pc.iceGatheringState === 'complete', without the test: the promise
\* resolves at once whatever the state is.
ResolvesAtOnceAlways(state) == TRUE

\* pc.iceGatheringState === 'complete' (useWebRTC.ts:114)
ResolvesAtOnce(state) == state = "complete"

\* waitForIceGathering(pc) (useWebRTC.ts:112-143), called at gaNow with the
\* connection in the given gathering state: resolved at once, or pending
\* with checkState listening and the timer set.
WaitForIceGathering(state) ==
    IF ResolvesAtOnce(state)
    THEN [at |-> "resolved", listener |-> FALSE, timer |-> FALSE, started |-> gaNow]
    ELSE [at |-> "pending", listener |-> TRUE, timer |-> TRUE, started |-> gaNow]

\* The code after await waitForIceGathering(pc) runs for the callers whose
\* wait is resolved in waits and was not before: the offer is sent
\* (useWebRTC.ts:514-529, 193-198).
GaContinue(waits) ==
    LET resolved == {w \in GaCallers : waits[w].at = "resolved" /\ gaWaits[w].at # "resolved"}
    IN  /\ gaWaits' = waits
        /\ gaStage' = [w \in GaCallers |->
                          IF w \in resolved THEN "sent"
                          ELSE IF waits[w].at = "pending" THEN "waiting"
                          ELSE gaStage[w]]
        /\ gaHist' = [w \in GaCallers |->
                         IF w \in resolved
                         THEN [sent |-> TRUE, gathering |-> gaIceGatheringState',
                               elapsed |-> gaNow - waits[w].started]
                         ELSE gaHist[w]]

\* startConnection up to await pc.createOffer() (useWebRTC.ts:456-509).
GaStartConnection ==
    /\ GaOnly
    /\ gaStage["start"] = "idle"
    /\ gaStage' = [gaStage EXCEPT !["start"] = "offer"]
    /\ UNCHANGED <<gaNow, gaIceGatheringState, gaWaits, gaHist, gaRegathered>>

\* attemptIceRestart up to await pc.createOffer({iceRestart: true})
\* (useWebRTC.ts:179-186), on the connection whose first offer is out.
GaAttemptIceRestart ==
    /\ GaOnly
    /\ gaStage["start"] = "sent"
    /\ gaStage["restart"] = "idle"
    /\ gaStage' = [gaStage EXCEPT !["restart"] = "offer"]
    /\ UNCHANGED <<gaNow, gaIceGatheringState, gaWaits, gaHist, gaRegathered>>

\* createOffer and setLocalDescription have resolved for caller w, and the
\* caller calls waitForIceGathering (useWebRTC.ts:509-514, 186-190).  The
\* wait begins while its timer can still fire within MaxTime.
GaDescribed(w) ==
    /\ GaOnly
    /\ gaStage[w] = "offer"
    /\ gaNow + timeoutMs <= MaxTime
    /\ gaIceGatheringState' = gaIceGatheringState
    /\ GaContinue([gaWaits EXCEPT ![w] = WaitForIceGathering(gaIceGatheringState)])
    /\ UNCHANGED <<gaNow, gaRegathered>>

\* createOffer or setLocalDescription rejects for caller w
\* (useWebRTC.ts:532-537, 201-205).
GaFails(w) ==
    /\ GaOnly
    /\ gaStage[w] = "offer"
    /\ gaStage' = [gaStage EXCEPT ![w] = "failed"]
    /\ UNCHANGED <<gaNow, gaIceGatheringState, gaWaits, gaHist, gaRegathered>>

\* The browser begins to gather: for the first local description, and once
\* more for the description of the ICE restart.  checkState runs for every
\* wait that listens and finds the state not complete (useWebRTC.ts:123-132).
GaGatheringStarts ==
    /\ GaOnly
    /\ \/ /\ gaIceGatheringState = "new"
          /\ gaStage["start"] \in {"waiting", "sent"}
          /\ UNCHANGED gaRegathered
       \/ /\ gaIceGatheringState = "complete"
          /\ gaStage["restart"] \in {"waiting", "sent"}
          /\ ~gaRegathered
          /\ gaRegathered' = TRUE
    /\ gaIceGatheringState' = "gathering"
    /\ UNCHANGED <<gaNow, gaStage, gaWaits, gaHist>>

\* The browser reports gathering complete: checkState runs for every wait
\* that listens, removes the listener and resolves (useWebRTC.ts:123-132).
GaGatheringComplete ==
    /\ GaOnly
    /\ gaIceGatheringState = "gathering"
    /\ gaIceGatheringState' = "complete"
    /\ GaContinue([w \in GaCallers |->
                      IF gaWaits[w].listener
                      THEN [gaWaits[w] EXCEPT !.listener = FALSE, !.at = "resolved"]
                      ELSE gaWaits[w]])
    /\ UNCHANGED <<gaNow, gaRegathered>>

\* The timer of the wait of caller w fires (useWebRTC.ts:137-143): when the
\* state is not complete it removes the listener and resolves, which does
\* nothing to a promise that is resolved.
GaTimeout(w) ==
    /\ GaOnly
    /\ gaWaits[w].timer
    /\ gaNow >= gaWaits[w].started + timeoutMs
    /\ gaIceGatheringState' = gaIceGatheringState
    /\ GaContinue([gaWaits EXCEPT ![w] =
                      IF gaIceGatheringState # "complete"
                      THEN [@ EXCEPT !.timer = FALSE, !.listener = FALSE, !.at = "resolved"]
                      ELSE [@ EXCEPT !.timer = FALSE]])
    /\ UNCHANGED <<gaNow, gaRegathered>>

\* A second passes.  A timer that is due fires before more time passes.
GaTimePasses ==
    /\ GaOnly
    /\ gaNow + 1000 <= MaxTime
    /\ \A w \in GaCallers : gaWaits[w].timer => gaNow < gaWaits[w].started + timeoutMs
    /\ gaNow' = gaNow + 1000
    /\ UNCHANGED <<gaIceGatheringState, gaStage, gaWaits, gaHist, gaRegathered>>

GaNext ==
    \/ GaStartConnection
    \/ GaAttemptIceRestart
    \/ \E w \in GaCallers : GaDescribed(w)
    \/ \E w \in GaCallers : GaFails(w)
    \/ GaGatheringStarts
    \/ GaGatheringComplete
    \/ \E w \in GaCallers : GaTimeout(w)
    \/ GaTimePasses

\* Time passes and the timers of setTimeout fire; the browser need not ever
\* report gathering complete.
SpecGather ==
    /\ GaInit
    /\ [][GaNext]_vars
    /\ WF_vars(GaTimePasses)
    /\ \A w \in GaCallers : WF_vars(GaTimeout(w))

\* ------------------------------------------------------------------------
\* SpecGather: properties
\* ------------------------------------------------------------------------

\* C20 - ICE gather before send.  The first offer is sent only when
\* gathering has reported complete or the 5000 ms timer has fired,
\* whichever comes first, and a wait for gathering always resolves: the
\* offer of a startConnection that waits is sent in the end.
C20_GatherBeforeSend ==
    /\ [](gaHist["start"].sent =>
             /\ gaHist["start"].gathering = "complete" \/ gaHist["start"].elapsed >= timeoutMs
             /\ gaHist["start"].elapsed <= timeoutMs)
    /\ (gaStage["start"] = "waiting") ~> (gaStage["start"] = "sent")

\* The first offer went out when the timer fired, with gathering still
\* going on.
C20_Witness ==
    /\ gaHist["start"].sent
    /\ gaHist["start"].gathering = "gathering"
    /\ gaHist["start"].elapsed = timeoutMs
    /\ gaStage["start"] = "sent"

\* C21 - stopConnection.  After stopConnection, when all that it set off
\* has run, no user has a PeerLink, remoteStreams is empty, the local
\* stream is stopped and null, and connectionState is idle.
C21_StopLeavesIdle ==
    [][MsStopConnection =>
          /\ \A u \in MsOthers : peersRef'[u] = "none"
          /\ remoteStreams' = {}
          /\ ~localStreamRef'
          /\ msConnectionState' = "idle"]_vars

\* ------------------------------------------------------------------------
\* SpecWs: src/lib/websocket client (unnamed/part_014), WebSocketClient
\* ------------------------------------------------------------------------

\* Every caller of onMessage and onDisconnect passes a function that it has
\* just made (RoomContext.tsx:99, 385; index.ts:455; useWebRTC.ts:854, 862;
\* useWebRTC-P2P.ts:971, 976): a registration is a callback of its own, named
\* by the number of the registration.
WcInit ==
    /\ WcIdle
    /\ users = <<1, 2>>
    /\ wsAtMount = FALSE
    /\ PnIdle
    /\ RcIdle
    /\ IceIdle
    /\ MdIdle
    /\ MsIdle
    /\ GaIdle
    /\ TgIdle
    /\ SfIdle
    /\ ClIdle

\* Array.prototype.indexOf: the first place of x in q, counted from 1, and 0
\* where JavaScript gives -1.
IndexOf(q, x) ==
    IF \E i \in 1..Len(q) : q[i] = x
    THEN CHOOSE i \in 1..Len(q) : q[i] = x /\ \A j \in 1..(i - 1) : q[j] # x
    ELSE 0

\* index > -1, without the test.
FoundAlways(index) == TRUE

\* index > -1 (unnamed/part_014:122, 187)
Found(index) == index > 0

\* q.splice(index, 1) under the test of the unsubscribe functions
\* (unnamed/part_014:121-124, 186-189); splice(-1, 1) takes the last element.
SpliceFound(q, index) ==
    IF ~Found(index) \/ q = <<>>
    THEN q
    ELSE RemoveAt(q, IF index = 0 THEN Len(q) ELSE index)

\* onMessage(callback) (unnamed/part_014:94-117): the callback is pushed,
\* and the catch-all listener is installed when there is none.
WcOnMessage ==
    /\ WcOnly
    /\ Len(wcRegistered) < MaxCallbacks
    /\ wcRegistered' = Append(wcRegistered, "message")
    /\ messageCallbacks' = Append(messageCallbacks, Len(wcRegistered) + 1)
    /\ onAnyListener' = TRUE
    /\ wcSocketAny' = IF onAnyListener THEN wcSocketAny ELSE wcSocketAny + 1
    /\ UNCHANGED <<disconnectCallbacks, wcUnsubscribed, wcInvoked, wcLate>>

\* The unsubscribe function that onMessage returned for registration r
\* (unnamed/part_014:120-131), called for the first time or again.
WcUnsubscribeMessage(r) ==
    /\ WcOnly
    /\ r \in 1..Len(wcRegistered)
    /\ wcRegistered[r] = "message"
    /\ LET callbacks == SpliceFound(messageCallbacks, IndexOf(messageCallbacks, r))
           remove == callbacks = <<>> /\ onAnyListener
       IN  /\ messageCallbacks' = callbacks
           /\ onAnyListener' = IF remove THEN FALSE ELSE onAnyListener
           /\ wcSocketAny' = IF remove THEN wcSocketAny - 1 ELSE wcSocketAny
    /\ wcUnsubscribed' = wcUnsubscribed \cup {r}
    /\ UNCHANGED <<disconnectCallbacks, wcRegistered, wcInvoked, wcLate>>

\* onDisconnect(callback) (unnamed/part_014:181-183).
WcOnDisconnect ==
    /\ WcOnly
    /\ Len(wcRegistered) < MaxCallbacks
    /\ wcRegistered' = Append(wcRegistered, "disconnect")
    /\ disconnectCallbacks' = Append(disconnectCallbacks, Len(wcRegistered) + 1)
    /\ UNCHANGED <<messageCallbacks, onAnyListener, wcSocketAny, wcUnsubscribed, wcInvoked,
                   wcLate>>

\* The unsubscribe function that onDisconnect returned for registration r
\* (unnamed/part_014:185-191).
WcUnsubscribeDisconnect(r) ==
    /\ WcOnly
    /\ r \in 1..Len(wcRegistered)
    /\ wcRegistered[r] = "disconnect"
    /\ disconnectCallbacks' = SpliceFound(disconnectCallbacks, IndexOf(disconnectCallbacks, r))
    /\ wcUnsubscribed' = wcUnsubscribed \cup {r}
    /\ UNCHANGED <<messageCallbacks, onAnyListener, wcSocketAny, wcRegistered, wcInvoked,
                   wcLate>>

\* The socket gets an event of the server: every catch-all listener that
\* is installed runs and calls the callbacks of messageCallbacks
\* (unnamed/part_014:99-114).
WcEvent ==
    /\ WcOnly
    /\ wcSocketAny > 0
    /\ wcInvoked' = {messageCallbacks[i] : i \in 1..Len(messageCallbacks)}
    /\ wcLate' = (wcLate \/ wcInvoked' \cap wcUnsubscribed # {})
    /\ UNCHANGED <<messageCallbacks, disconnectCallbacks, onAnyListener, wcSocketAny,
                   wcRegistered, wcUnsubscribed>>

\* The socket reports 'disconnect': the callbacks of disconnectCallbacks
\* are called (unnamed/part_014:38-48).
WcDisconnect ==
    /\ WcOnly
    /\ disconnectCallbacks # <<>>
    /\ wcInvoked' = {disconnectCallbacks[i] : i \in 1..Len(disconnectCallbacks)}
    /\ wcLate' = (wcLate \/ wcInvoked' \cap wcUnsubscribed # {})
    /\ UNCHANGED <<messageCallbacks, disconnectCallbacks, onAnyListener, wcSocketAny,
                   wcRegistered, wcUnsubscribed>>

WcNext ==
    \/ WcOnMessage
    \/ \E r \in 1..MaxCallbacks : WcUnsubscribeMessage(r)
    \/ WcOnDisconnect
    \/ \E r \in 1..MaxCallbacks : WcUnsubscribeDisconnect(r)
    \/ WcEvent
    \/ WcDisconnect

SpecWs == WcInit /\ [][WcNext]_vars

\* ------------------------------------------------------------------------
\* SpecWs: properties
\* ------------------------------------------------------------------------

\* The registrations of onMessage whose unsubscribe function was not called.
WcLiveMessageCallbacks ==
    {r \in 1..Len(wcRegistered) : wcRegistered[r] = "message" /\ r \notin wcUnsubscribed}

\* C22 - No listener accumulation in the signaling client.  After any
\* sequence of registrations and calls of unsubscribe functions, a call of
\* the same one twice included, the socket has at most one catch-all
\* listener, it has one exactly when a callback of onMessage is registered
\* and not unsubscribed, and no event has invoked a callback that was
\* unsubscribed.
C22_NoListenerAccumulation ==
    /\ wcSocketAny <= 1
    /\ wcSocketAny = 1 <=> WcLiveMessageCallbacks # {}
    /\ ~wcLate

\* Two callbacks were registered, the first was unsubscribed, and an event
\* has come that invoked the second alone.
C22_Witness ==
    /\ 1 \in wcUnsubscribed
    /\ messageCallbacks = <<2>>
    /\ wcInvoked = {2}
    /\ wcSocketAny = 1

\* ------------------------------------------------------------------------
\* SpecTabs: src/lib/multi-tab-guard (unnamed/part_016), MultiTabGuard
\* ------------------------------------------------------------------------

\* All tabs open the same room, so the roomId test of the message handler
\* (unnamed/part_016:41) passes.  BroadcastChannel is supported.
TgInit ==
    /\ TgIdle
    /\ users = <<1, 2>>
    /\ wsAtMount = FALSE
    /\ PnIdle
    /\ RcIdle
    /\ IceIdle
    /\ MdIdle
    /\ MsIdle
    /\ GaIdle
    /\ WcIdle
    /\ SfIdle
    /\ ClIdle

\* channel.postMessage of tab t: the message goes to every other tab whose
\* channel is open, in the order it was posted.
PostMessage(inbox, t, type) ==
    [o \in Tabs |->
        IF o # t /\ tgChannel[o] = "open"
        THEN Append(inbox[o], [type |-> type, timestamp |-> tgNow])
        ELSE inbox[o]]

\* handleConflict (unnamed/part_016:140-150): the tab is deactivated and
\* onConflict is called.
HandleConflict(t) ==
    /\ isActive' = [isActive EXCEPT ![t] = FALSE]
    /\ tgConflicts' = [tgConflicts EXCEPT ![t] = IF @ < MaxConflicts THEN @ + 1 ELSE @]

\* A tab opens the room: the constructor of MultiTabGuard
\* (unnamed/part_016:17-32) opens the channel, posts 'ping', sets the
\* 100 ms timer and starts the heartbeat interval (87-104).
TgOpen(t) ==
    /\ TgOnly
    /\ tgChannel[t] = "none"
    /\ tgChannel' = [tgChannel EXCEPT ![t] = "open"]
    /\ tgInbox' = PostMessage(tgInbox, t, "ping")
    /\ tgClaimTimer' = [tgClaimTimer EXCEPT ![t] = TRUE]
    /\ tgLate' = [tgLate EXCEPT ![t] = \E o \in Tabs \ {t} : tgChannel[o] = "open" /\ isActive[o]]
    /\ UNCHANGED <<isActive, lastHeartbeat, tgNow, tgConflicts>>

\* The 100 ms timer of tab t fires (unnamed/part_016:99-104) and, when the
\* tab is not active, claim() runs (106-120), which sets isActive alone
\* when the channel is closed.
TgClaimTimerFires(t) ==
    /\ TgOnly
    /\ tgClaimTimer[t]
    /\ tgClaimTimer' = [tgClaimTimer EXCEPT ![t] = FALSE]
    /\ IF isActive[t]
       THEN UNCHANGED <<isActive, tgInbox>>
       ELSE /\ isActive' = [isActive EXCEPT ![t] = TRUE]
            /\ tgInbox' = IF tgChannel[t] = "open"
                          THEN PostMessage(tgInbox, t, "claim")
                          ELSE tgInbox
    /\ UNCHANGED <<tgChannel, lastHeartbeat, tgNow, tgConflicts, tgLate>>

\* The heartbeat interval of tab t fires, 2 s after the one before
\* (unnamed/part_016:125-136); the 100 ms timer has fired by then.
TgHeartbeat(t) ==
    /\ TgOnly
    /\ tgChannel[t] = "open"
    /\ ~tgClaimTimer[t]
    /\ isActive[t]
    /\ tgNow < MaxHeartbeats
    /\ tgNow' = tgNow + 1
    /\ lastHeartbeat' = [lastHeartbeat EXCEPT ![t] = tgNow + 1]
    /\ tgInbox' = [o \in Tabs |->
                      IF o # t /\ tgChannel[o] = "open"
                      THEN Append(tgInbox[o], [type |-> "heartbeat", timestamp |-> tgNow + 1])
                      ELSE tgInbox[o]]
    /\ UNCHANGED <<tgChannel, isActive, tgClaimTimer, tgConflicts, tgLate>>

\* channel.onmessage of tab t for the next message
\* (unnamed/part_016:37-84).
TgDeliver(t) ==
    /\ TgOnly
    /\ tgChannel[t] = "open"
    /\ tgInbox[t] # <<>>
    /\ LET message == Head(tgInbox[t])
           rest == [tgInbox EXCEPT ![t] = Tail(@)]
       IN  CASE message.type = "ping" ->
                  /\ tgInbox' = IF isActive[t] THEN PostMessage(rest, t, "pong") ELSE rest
                  /\ UNCHANGED <<isActive, tgConflicts>>
             [] message.type = "pong" ->
                  /\ tgInbox' = rest
                  /\ IF message.timestamp > lastHeartbeat[t]
                     THEN HandleConflict(t)
                     ELSE UNCHANGED <<isActive, tgConflicts>>
             [] message.type = "heartbeat" ->
                  /\ tgInbox' = rest
                  /\ IF isActive[t] /\ message.timestamp > lastHeartbeat[t]
                     THEN HandleConflict(t)
                     ELSE UNCHANGED <<isActive, tgConflicts>>
             [] message.type = "claim" ->
                  /\ tgInbox' = rest
                  /\ IF isActive[t]
                     THEN HandleConflict(t)
                     ELSE UNCHANGED <<isActive, tgConflicts>>
             [] OTHER ->
                  /\ tgInbox' = rest
                  /\ UNCHANGED <<isActive, tgConflicts>>
    /\ UNCHANGED <<tgChannel, lastHeartbeat, tgClaimTimer, tgNow, tgLate>>

\* release() (unnamed/part_016:152-174), called when the room is left
\* (RoomContext.tsx:263-265): the interval is cleared, 'release' is posted
\* when the tab is active, the channel is closed.  The 100 ms timer is not
\* cleared.
TgRelease(t) ==
    /\ TgOnly
    /\ tgChannel[t] = "open"
    /\ tgInbox' = [(IF isActive[t] THEN PostMessage(tgInbox, t, "release") ELSE tgInbox)
                      EXCEPT ![t] = <<>>]
    /\ isActive' = [isActive EXCEPT ![t] = FALSE]
    /\ tgChannel' = [tgChannel EXCEPT ![t] = "closed"]
    /\ UNCHANGED <<lastHeartbeat, tgClaimTimer, tgNow, tgConflicts, tgLate>>

TgNext ==
    \E t \in Tabs :
        \/ TgOpen(t)
        \/ TgClaimTimerFires(t)
        \/ TgHeartbeat(t)
        \/ TgDeliver(t)
        \/ TgRelease(t)

SpecTabs == TgInit /\ [][TgNext]_vars

\* ------------------------------------------------------------------------
\* SpecTabs: properties
\* ------------------------------------------------------------------------

\* C23 - Multi-tab mutual exclusion.  At most one guard whose channel is
\* open is active at any time, for every interleaving of the messages and
\* the timers.
C23_AtMostOneActiveTab ==
    Cardinality({t \in Tabs : tgChannel[t] = "open" /\ isActive[t]}) <= 1

\* ------------------------------------------------------------------------
\* SpecPolite: src/modules/video/index.ts with a roster that changes and
\* startConnection called again
\* ------------------------------------------------------------------------

\* The two clients are alone in the room when they open it.
PolInit ==
    /\ users = <<1, 2>>
    /\ PnIdle
    /\ wsAtMount = FALSE
    /\ RcIdle
    /\ IceIdle
    /\ MdIdle
    /\ MsIdle
    /\ GaIdle
    /\ WcIdle
    /\ TgIdle
    /\ SfIdle
    /\ ClIdle

\* ROOM_USER_JOINED for a user that runs no client: it is put at the end
\* of the roster (RoomContext.tsx:157-165).
PnGhostJoins(g) ==
    /\ PnOnly
    /\ \A i \in 1..Len(users) : users[i] \notin Ghosts
    /\ users' = Append(users, g)
    /\ PnUnchangedFlags
    /\ UNCHANGED <<pnStart, pnPartner, politeRef, pnLocalStream, isConnecting, isConnected,
                   pnError, pnPc, pnOps, pnNet, pnHist, pnFailures>>

\* ROOM_USER_LEFT for that user (RoomContext.tsx:167-171).
PnGhostLeaves ==
    /\ PnOnly
    /\ \E i \in 1..Len(users) : users[i] \in Ghosts
    /\ users' = SelectSeq(users, LAMBDA u : u \notin Ghosts)
    /\ PnUnchangedFlags
    /\ UNCHANGED <<pnStart, pnPartner, politeRef, pnLocalStream, isConnecting, isConnected,
                   pnError, pnPc, pnOps, pnNet, pnHist, pnFailures>>

\* startConnection is called again, up to its await (index.ts:307-323), by
\* the component that shows the call: it calls when there is a partner and
\* the hook is neither connected nor connecting (PIPVideoWindow.tsx:116-121).
\* The connection of the call before is still in peerConnectionRef.
PnStartAgain(c) ==
    /\ PnOnly
    /\ pnStart[c] = "done"
    /\ pnPc[c].exists
    /\ ~isConnected[c]
    /\ ~isConnecting[c]
    /\ PartnerId(users, c) # NoUser
    /\ pnPartner' = [pnPartner EXCEPT ![c] = PartnerId(users, c)]
    /\ politeRef' = [politeRef EXCEPT ![c] = IsPolite(c, PartnerId(users, c))]
    /\ isConnecting' = [isConnecting EXCEPT ![c] = TRUE]
    /\ pnError' = [pnError EXCEPT ![c] = "none"]
    /\ pnStart' = [pnStart EXCEPT ![c] = "again"]
    /\ PnUnchangedFlags
    /\ UNCHANGED <<users, pnLocalStream, isConnected, pnPc, pnOps, pnNet, pnHist, pnFailures>>

\* initializeLocalStream resolves for the second call and
\* createPeerConnection puts a new connection into peerConnectionRef
\* (index.ts:164-167, 326).  The connection it replaces is not closed; the
\* model does not follow it further and drops its pending operations.
PnMediaGrantedAgain(c) ==
    /\ PnOnly
    /\ pnStart[c] = "again"
    /\ pnStart' = [pnStart EXCEPT ![c] = "done"]
    /\ pnPc' = [pnPc EXCEPT ![c] = NewPc]
    /\ pnOps' = [pnOps EXCEPT ![c] = <<>>]
    /\ pnHist' = [pnHist EXCEPT !.politeAt[c] = politeRef[c]]
    /\ PnUnchangedFlags
    /\ UNCHANGED <<users, pnPartner, politeRef, pnLocalStream, isConnecting, isConnected,
                   pnError, pnNet, pnFailures>>

\* The relay sends no message back to its sender here.
PolNext ==
    \/ \E c \in Clients :
          \/ PnStartConnection(c)
          \/ PnMediaGranted(c)
          \/ PnMediaDenied(c)
          \/ PnNegotiationNeeded(c)
          \/ PnDeliver(c)
          \/ PnOfferCreated(c)
          \/ PnRemoteDescriptionSet(c)
          \/ PnAnswerCreated(c)
          \/ PnTransportConnected(c)
          \/ PnTransportFailed(c)
    \/ \E g \in Ghosts : PnGhostJoins(g)
    \/ PnGhostLeaves
    \/ \E c \in Clients : PnStartAgain(c)
    \/ \E c \in Clients : PnMediaGrantedAgain(c)

SpecPolite == PolInit /\ [][PolNext]_vars

\* C24 - isPolite is fixed per connection handle.  For as long as a
\* connection is in peerConnectionRef, the flag that the message handler
\* reads is the one the connection was made with: no later call of
\* startConnection and no change of the roster alters it.
C24_PoliteFixedPerHandle ==
    \A c \in Clients : pnPc[c].exists => politeRef[c] = pnHist.politeAt[c]

\* ------------------------------------------------------------------------
\* SpecSfu: useWebRTC.ts, the offers the client creates (startConnection,
\* onnegotiationneeded, attemptIceRestart), the answers and offers of the SFU
\* (handleAnswer, handleIncomingOffer) and its candidates
\* (handleICECandidate), all on one RTCPeerConnection.  The calls run
\* concurrently: each one waits at its awaits while the others go on, and the
\* operations of the connection settle in the order of its operations chain.
\* ------------------------------------------------------------------------

SfInit ==
    /\ SfIdle
    /\ users = <<1, 2>>
    /\ PnIdle
    /\ wsAtMount = FALSE
    /\ RcIdle
    /\ IceIdle
    /\ MdIdle
    /\ MsIdle
    /\ GaIdle
    /\ WcIdle
    /\ TgIdle
    /\ ClIdle

\* An operation as it is appended to the operations chain.
SfOp(op, caller, id, candidate) ==
    [op |-> op, caller |-> caller, id |-> id, candidate |-> candidate]

\* The operation at the head of the chain is the given one.
SfHead(op, caller, id) ==
    /\ sfOps # <<>>
    /\ Head(sfOps).op = op
    /\ Head(sfOps).caller = caller
    /\ Head(sfOps).id = id

\* pc.localDescription === null: neither a pending nor a current one.
SfLocalDescriptionNull(pc) == ~pc.pendingLocal /\ ~pc.currentLocal

\* startConnection up to the await of createOffer (useWebRTC.ts:456-509): the
\* connection is created and makingOfferRef is set.
SfStartConnection ==
    /\ SfOnly
    /\ sfOfferers["start"] = "idle"
    /\ ~sfPc.exists
    /\ sfPc' = [NoSfPc EXCEPT !.exists = TRUE]
    /\ sfMakingOfferRef' = TRUE
    /\ sfOps' = Append(sfOps, SfOp("createOffer", "start", 0, 0))
    /\ sfOfferers' = [sfOfferers EXCEPT !["start"] = "createOffer"]
    /\ UNCHANGED <<sfIceCandidateBufferRef, sfHandlers, sfArrived, sfOutstanding, sfHist>>

\* onnegotiationneeded up to the await of createOffer (useWebRTC.ts:379-394).
\* A browser that follows the WebRTC specification fires the event with the
\* signaling state stable and the operations chain empty, older ones fire it
\* in any state and without waiting for the chain; both are allowed here, as
\* for index.ts.  The handler returns when makingOfferRef is set; it does not
\* read the signaling state.
SfNegotiationNeeded ==
    /\ SfOnly
    /\ sfPc.exists
    /\ (sfOps = <<>> \/ sfPc.signalingState # "stable")
    /\ sfOfferers["negotiation"] = "idle"
    /\ IF sfMakingOfferRef
       THEN UNCHANGED <<sfMakingOfferRef, sfIceCandidateBufferRef, sfOps, sfOfferers, sfHist>>
       ELSE /\ sfMakingOfferRef' = TRUE
            /\ sfIceCandidateBufferRef' = <<>>
            /\ sfOps' = Append(sfOps, SfOp("createOffer", "negotiation", 0, 0))
            /\ sfOfferers' = [sfOfferers EXCEPT !["negotiation"] = "createOffer"]
            /\ sfHist' = [sfHist EXCEPT !.negotiationIn = sfPc.signalingState]
    /\ UNCHANGED <<sfPc, sfHandlers, sfArrived, sfOutstanding>>

\* attemptIceRestart up to the await of createOffer (useWebRTC.ts:179-188),
\* called when the ICE connection of a negotiated connection fails
\* (useWebRTC.ts:369-376).  makingOfferRef is not written.
SfAttemptIceRestart ==
    /\ SfOnly
    /\ sfPc.exists
    /\ sfPc.currentLocal
    /\ sfPc.remoteDescription
    /\ sfOfferers["restart"] = "idle"
    /\ sfOps' = Append(sfOps, SfOp("createOffer", "restart", 0, 0))
    /\ sfOfferers' = [sfOfferers EXCEPT !["restart"] = "createOffer"]
    /\ UNCHANGED <<sfPc, sfMakingOfferRef, sfIceCandidateBufferRef, sfHandlers, sfArrived,
                   sfOutstanding, sfHist>>

\* The catch block of the caller w, the rejected operation removed from the
\* chain: startConnection calls cleanupConnection, which closes the
\* connection and resets makingOfferRef and the buffer (useWebRTC.ts:532-537,
\* 422-450); onnegotiationneeded resets makingOfferRef (useWebRTC.ts:410-413);
\* attemptIceRestart hands over to reconnectWithBackoff (useWebRTC.ts:201-205).
SfCatch(w, ops) ==
    /\ sfOfferers' = [sfOfferers EXCEPT ![w] = "failed"]
    /\ IF w = "start"
       THEN /\ sfPc' = NoSfPc
            /\ sfIceCandidateBufferRef' = <<>>
            /\ sfMakingOfferRef' = FALSE
            /\ sfOps' = <<>>
       ELSE /\ sfMakingOfferRef' = IF w = "negotiation" THEN FALSE ELSE sfMakingOfferRef
            /\ sfOps' = ops
            /\ UNCHANGED <<sfPc, sfIceCandidateBufferRef>>

\* createOffer resolves: the caller goes on to setLocalDescription(offer)
\* (useWebRTC.ts:189-190, 394-395, 509-510).
SfOfferCreated(w) ==
    /\ SfOnly
    /\ SfHead("createOffer", w, 0)
    /\ sfOps' = Append(Tail(sfOps), SfOp("SLD-offer", w, 0, 0))
    /\ sfOfferers' = [sfOfferers EXCEPT ![w] = "setLocal"]
    /\ UNCHANGED <<sfPc, sfMakingOfferRef, sfIceCandidateBufferRef, sfHandlers, sfArrived,
                   sfOutstanding, sfHist>>

\* createOffer rejects.
SfOfferFails(w) ==
    /\ SfOnly
    /\ SfHead("createOffer", w, 0)
    /\ SfCatch(w, Tail(sfOps))
    /\ UNCHANGED <<sfHandlers, sfArrived, sfOutstanding, sfHist>>

\* setLocalDescription(offer) settles: it resolves in stable and in
\* have-local-offer and rejects in have-remote-offer.
SfLocalOfferSet(w) ==
    /\ SfOnly
    /\ SfHead("SLD-offer", w, 0)
    /\ IF sfPc.signalingState \in {"stable", "have-local-offer"}
       THEN /\ sfPc' = [sfPc EXCEPT !.signalingState = "have-local-offer",
                                    !.pendingLocal = TRUE]
            /\ sfOps' = Tail(sfOps)
            /\ sfOfferers' = [sfOfferers EXCEPT ![w] = "gather"]
            /\ UNCHANGED <<sfMakingOfferRef, sfIceCandidateBufferRef>>
       ELSE SfCatch(w, Tail(sfOps))
    /\ UNCHANGED <<sfHandlers, sfArrived, sfOutstanding, sfHist>>

\* The offer of the caller w is handed to wsClient.send.
SfSend(w) ==
    /\ sfOfferers' = [sfOfferers EXCEPT ![w] = "done"]
    /\ sfHist' = [sfHist EXCEPT !.sent = @ \cup {w}]
    /\ sfOutstanding' = IF sfPc.pendingLocal THEN sfOutstanding + 1 ELSE sfOutstanding

\* waitForIceGathering resolves and the caller sends pc.localDescription
\* (useWebRTC.ts:193-199, 398-408, 514-529).  startConnection and
\* onnegotiationneeded reset makingOfferRef first; startConnection throws
\* when the local description is null.
SfGathered(w) ==
    /\ SfOnly
    /\ sfOfferers[w] = "gather"
    /\ IF w = "start" /\ SfLocalDescriptionNull(sfPc)
       THEN /\ SfCatch(w, sfOps)
            /\ UNCHANGED <<sfOutstanding, sfHist>>
       ELSE /\ sfMakingOfferRef' = IF w = "restart" THEN sfMakingOfferRef ELSE FALSE
            /\ SfSend(w)
            /\ UNCHANGED <<sfPc, sfIceCandidateBufferRef, sfOps>>
    /\ UNCHANGED <<sfHandlers, sfArrived>>

\* handleICECandidate (useWebRTC.ts:652-670): buffered without a remote
\* description, handed to pc.addIceCandidate with one.
SfCandidateArrives ==
    /\ SfOnly
    /\ sfArrived < MaxSfCandidates
    /\ sfArrived' = sfArrived + 1
    /\ IF ~sfPc.exists \/ ~sfPc.remoteDescription
       THEN /\ sfIceCandidateBufferRef' = BufferPush(sfIceCandidateBufferRef, sfArrived + 1)
            /\ UNCHANGED sfOps
       ELSE /\ sfOps' = Append(sfOps, SfOp("add", "candidate", 0, sfArrived + 1))
            /\ UNCHANGED sfIceCandidateBufferRef
    /\ UNCHANGED <<sfPc, sfMakingOfferRef, sfOfferers, sfHandlers, sfOutstanding, sfHist>>

\* The addIceCandidate of handleICECandidate resolves (useWebRTC.ts:664-666).
SfLateCandidateAdded ==
    /\ SfOnly
    /\ SfHead("add", "candidate", 0)
    /\ sfHist' = [sfHist EXCEPT !.applied = @ \cup {Head(sfOps).candidate}]
    /\ sfOps' = Tail(sfOps)
    /\ UNCHANGED <<sfPc, sfMakingOfferRef, sfIceCandidateBufferRef, sfOfferers, sfHandlers,
                   sfArrived, sfOutstanding>>

\* The number of the next call of handleAnswer or handleIncomingOffer.
SfNextCall(h) ==
    /\ sfHandlers[h].kind = "none"
    /\ \A g \in SfCalls : g < h => sfHandlers[g].kind # "none"

\* The elements of a sequence.
SfRange(s) == {s[i] : i \in DOMAIN s}

\* handleAnswer up to the await of setRemoteDescription (useWebRTC.ts:553-568):
\* the buffer is cleared.  The SFU answers an offer it received.
SfAnswerArrives(h) ==
    /\ SfOnly
    /\ SfNextCall(h)
    /\ sfOutstanding > 0
    /\ sfOutstanding' = sfOutstanding - 1
    /\ IF ~sfPc.exists
       THEN /\ sfHandlers' = [sfHandlers EXCEPT ![h] = [NoSfHandler EXCEPT !.kind = "answer",
                                                                         !.at = "nopc"]]
            /\ UNCHANGED <<sfIceCandidateBufferRef, sfOps, sfHist>>
       ELSE /\ sfHist' = [sfHist EXCEPT !.met = @ \cup SfRange(sfIceCandidateBufferRef)]
            /\ sfIceCandidateBufferRef' = <<>>
            /\ sfOps' = Append(sfOps, SfOp("SRD-answer", "handler", h, 0))
            /\ sfHandlers' = [sfHandlers EXCEPT ![h] = [NoSfHandler EXCEPT !.kind = "answer",
                                                                         !.at = "srd"]]
    /\ UNCHANGED <<sfPc, sfMakingOfferRef, sfOfferers, sfArrived>>

\* The collision test of handleIncomingOffer for an offer
\* (useWebRTC.ts:599-601).
SfOfferCollision == sfMakingOfferRef \/ sfPc.signalingState # "stable"

\* handleIncomingOffer up to its first await (useWebRTC.ts:588-622).
\* isPolitePeerRef.current is true (useWebRTC.ts:97), so no offer is ignored:
\* with a collision the handler awaits setLocalDescription({type:'rollback'}),
\* without one it clears the buffer and awaits setRemoteDescription(offer).
SfOfferArrives(h) ==
    /\ SfOnly
    /\ SfNextCall(h)
    /\ sfPc.exists
    /\ sfHist' = [sfHist EXCEPT !.met = @ \cup SfRange(sfIceCandidateBufferRef)]
    /\ IF SfOfferCollision
       THEN /\ sfOps' = Append(sfOps, SfOp("rollback", "handler", h, 0))
            /\ sfHandlers' = [sfHandlers EXCEPT ![h] = [NoSfHandler EXCEPT !.kind = "offer",
                                                                         !.at = "rollback",
                                                                         !.collision = TRUE]]
            /\ UNCHANGED sfIceCandidateBufferRef
       ELSE /\ sfIceCandidateBufferRef' = <<>>
            /\ sfOps' = Append(sfOps, SfOp("SRD-offer", "handler", h, 0))
            /\ sfHandlers' = [sfHandlers EXCEPT ![h] = [NoSfHandler EXCEPT !.kind = "offer",
                                                                         !.at = "srd"]]
    /\ UNCHANGED <<sfPc, sfMakingOfferRef, sfOfferers, sfArrived, sfOutstanding>>

\* setLocalDescription({type:'rollback'}) settles (useWebRTC.ts:612-620): it
\* rejects with InvalidStateError in stable, and the catch block only logs
\* (useWebRTC.ts:644-646); otherwise the state is stable again and the handler
\* clears the buffer and awaits setRemoteDescription(offer).
SfRollbackSettles(h) ==
    /\ SfOnly
    /\ SfHead("rollback", "handler", h)
    /\ IF sfPc.signalingState = "stable"
       THEN /\ sfHandlers' = [sfHandlers EXCEPT ![h].at = "failed"]
            /\ sfOps' = Tail(sfOps)
            /\ UNCHANGED <<sfPc, sfIceCandidateBufferRef>>
       ELSE /\ sfPc' = [sfPc EXCEPT !.signalingState = "stable", !.pendingLocal = FALSE]
            /\ sfIceCandidateBufferRef' = <<>>
            /\ sfOps' = Append(Tail(sfOps), SfOp("SRD-offer", "handler", h, 0))
            /\ sfHandlers' = [sfHandlers EXCEPT ![h].at = "srd"]
    /\ UNCHANGED <<sfMakingOfferRef, sfOfferers, sfArrived, sfOutstanding, sfHist>>

\* What a handler does when the candidates of its loop are used up
\* (useWebRTC.ts:577-579, 629-634): handleIncomingOffer goes on to createAnswer.
SfFlushDone(h, ops) ==
    IF sfHandlers[h].kind = "offer"
    THEN /\ sfHandlers' = [sfHandlers EXCEPT ![h].at = "createAnswer", ![h].items = <<>>,
                                             ![h].pos = 0]
         /\ sfOps' = Append(ops, SfOp("createAnswer", "handler", h, 0))
    ELSE /\ sfHandlers' = [sfHandlers EXCEPT ![h].at = "done", ![h].items = <<>>,
                                             ![h].pos = 0]
         /\ sfOps' = ops

\* setRemoteDescription settles (useWebRTC.ts:568-575, 622-627).  An answer
\* is accepted in have-local-offer; an offer is accepted in every state, the
\* local offer rolled back.  A rejection ends the handler in its catch block.
\* After it the handler starts its loop over the buffer.
SfRemoteDescriptionSet(h) ==
    /\ SfOnly
    /\ sfOps # <<>>
    /\ Head(sfOps).op \in {"SRD-answer", "SRD-offer"}
    /\ Head(sfOps).id = h
    /\ IF Head(sfOps).op = "SRD-answer" /\ sfPc.signalingState # "have-local-offer"
       THEN /\ sfHandlers' = [sfHandlers EXCEPT ![h].at = "failed"]
            /\ sfOps' = Tail(sfOps)
            /\ UNCHANGED sfPc
       ELSE /\ sfPc' = IF Head(sfOps).op = "SRD-answer"
                       THEN [sfPc EXCEPT !.signalingState = "stable",
                                         !.pendingLocal = FALSE,
                                         !.currentLocal = TRUE,
                                         !.remoteDescription = TRUE]
                       ELSE [sfPc EXCEPT !.signalingState = "have-remote-offer",
                                         !.pendingLocal = FALSE,
                                         !.remoteDescription = TRUE]
            /\ IF sfIceCandidateBufferRef # <<>>
               THEN /\ sfHandlers' = [sfHandlers EXCEPT ![h].at = "flush",
                                                        ![h].items = sfIceCandidateBufferRef,
                                                        ![h].pos = 1]
                    /\ sfOps' = Append(Tail(sfOps),
                                       SfOp("add", "handler", h, sfIceCandidateBufferRef[1]))
               ELSE SfFlushDone(h, Tail(sfOps))
    /\ UNCHANGED <<sfMakingOfferRef, sfIceCandidateBufferRef, sfOfferers, sfArrived,
                   sfOutstanding, sfHist>>

\* An addIceCandidate of the loop resolves; the loop goes on to the next
\* candidate of the array it iterates, or ends and empties the buffer
\* (useWebRTC.ts:574-577, 626-629).
SfFlushStep(h) ==
    /\ SfOnly
    /\ SfHead("add", "handler", h)
    /\ sfHist' = [sfHist EXCEPT !.applied = @ \cup {Head(sfOps).candidate}]
    /\ IF sfHandlers[h].pos < Len(sfHandlers[h].items)
       THEN /\ sfHandlers' = [sfHandlers EXCEPT ![h].pos = @ + 1]
            /\ sfOps' = Append(Tail(sfOps),
                               SfOp("add", "handler", h,
                                    sfHandlers[h].items[sfHandlers[h].pos + 1]))
            /\ UNCHANGED sfIceCandidateBufferRef
       ELSE /\ sfIceCandidateBufferRef' = <<>>
            /\ SfFlushDone(h, Tail(sfOps))
    /\ UNCHANGED <<sfPc, sfMakingOfferRef, sfOfferers, sfArrived, sfOutstanding>>

\* createAnswer settles (useWebRTC.ts:633-634): it resolves in
\* have-remote-offer, and the handler awaits setLocalDescription(answer).
SfAnswerCreated(h) ==
    /\ SfOnly
    /\ SfHead("createAnswer", "handler", h)
    /\ IF sfPc.signalingState = "have-remote-offer"
       THEN /\ sfOps' = Append(Tail(sfOps), SfOp("SLD-answer", "handler", h, 0))
            /\ sfHandlers' = [sfHandlers EXCEPT ![h].at = "setLocal"]
       ELSE /\ sfOps' = Tail(sfOps)
            /\ sfHandlers' = [sfHandlers EXCEPT ![h].at = "failed"]
    /\ UNCHANGED <<sfPc, sfMakingOfferRef, sfIceCandidateBufferRef, sfOfferers, sfArrived,
                   sfOutstanding, sfHist>>

\* setLocalDescription(answer) settles and the answer is sent
\* (useWebRTC.ts:634-643).
SfAnswerSet(h) ==
    /\ SfOnly
    /\ SfHead("SLD-answer", "handler", h)
    /\ sfOps' = Tail(sfOps)
    /\ IF sfPc.signalingState = "have-remote-offer"
       THEN /\ sfPc' = [sfPc EXCEPT !.signalingState = "stable", !.currentLocal = TRUE]
            /\ sfHandlers' = [sfHandlers EXCEPT ![h].at = "answered"]
            /\ sfHist' = [sfHist EXCEPT !.answers[h] = @ + 1]
       ELSE /\ sfHandlers' = [sfHandlers EXCEPT ![h].at = "failed"]
            /\ UNCHANGED <<sfPc, sfHist>>
    /\ UNCHANGED <<sfMakingOfferRef, sfIceCandidateBufferRef, sfOfferers, sfArrived,
                   sfOutstanding>>

SfNext ==
    \/ SfStartConnection
    \/ SfNegotiationNeeded
    \/ SfAttemptIceRestart
    \/ \E w \in SfCallers : SfOfferCreated(w)
    \/ \E w \in SfCallers : SfOfferFails(w)
    \/ \E w \in SfCallers : SfLocalOfferSet(w)
    \/ \E w \in SfCallers : SfGathered(w)
    \/ SfCandidateArrives
    \/ SfLateCandidateAdded
    \/ \E h \in SfCalls : SfAnswerArrives(h)
    \/ \E h \in SfCalls : SfOfferArrives(h)
    \/ \E h \in SfCalls : SfRollbackSettles(h)
    \/ \E h \in SfCalls : SfRemoteDescriptionSet(h)
    \/ \E h \in SfCalls : SfFlushStep(h)
    \/ \E h \in SfCalls : SfAnswerCreated(h)
    \/ \E h \in SfCalls : SfAnswerSet(h)

SpecSfu == SfInit /\ [][SfNext]_vars

\* ------------------------------------------------------------------------
\* SpecSfu: properties
\* ------------------------------------------------------------------------

\* C25 (polite rollback always accepts): a call of handleIncomingOffer that
\* met a collision (makingOfferRef set or the signaling state not stable)
\* never ends in its catch block: the offer is applied and answered, never
\* dropped.
C25_PoliteRollbackAccepts ==
    \A h \in SfCalls :
        sfHandlers[h].kind = "offer" /\ sfHandlers[h].collision
            => sfHandlers[h].at # "failed"

\* ------------------------------------------------------------------------
\* SpecPN: the offer an impolite client ignores
\* ------------------------------------------------------------------------

\* Client c has a connection, is impolite, and the next message of its
\* partner is an offer that collides with what c is doing.
PnCollidingOfferAtImpolite(c) ==
    /\ pnNet[c] # <<>>
    /\ pnPc[c].exists
    /\ ~politeRef[c]
    /\ Head(pnNet[c]).from # c
    /\ OfferCollision(c, Head(pnNet[c]))

\* C26 (ignoring a colliding offer has no side effects): when the handler of
\* an impolite client receives an offer during a collision, the connection
\* (signaling state, local and remote description), the ICE generation, the
\* connection flags, the error and the operations chain stay as they are and
\* no signaling message is sent.
C26_IgnoredOfferNoEffect ==
    [][\A c \in Clients :
          PnDeliver(c) /\ PnCollidingOfferAtImpolite(c)
            => /\ pnPc' = pnPc
               /\ pnOps' = pnOps
               /\ currentIceGenerationRef' = currentIceGenerationRef
               /\ isConnected' = isConnected
               /\ isConnecting' = isConnecting
               /\ pnError' = pnError
               /\ pnNet'[Other(c)] = pnNet[Other(c)]
               /\ pnHist'.offersSent = pnHist.offersSent
               /\ pnHist'.answersSent = pnHist.answersSent]_vars

\* An impolite client has just ignored a colliding offer.
C26_Witness ==
    \E c \in Clients :
        /\ ~politeRef[c]
        /\ ignoreOfferRef[c]
        /\ \E d \in pnHist.ignored : d.from = Other(c)
        /\ pnPc[c].exists
        /\ pnPc[c].sig = "have-local-offer"

\* ------------------------------------------------------------------------
\* SpecPN: the collision test
\* ------------------------------------------------------------------------

\* C27 (collision detection formula): for the description that the handler
\* of a client with a connection is about to receive, whatever makingOfferRef,
\* the signaling state and isSettingRemoteAnswerPendingRef are, the handler's
\* collision decision equals
\* (type == offer) && (makingOffer || signalingState != stable).
C27_CollisionFormula ==
    \A c \in Clients :
        pnPc[c].exists /\ pnNet[c] # <<>>
            => (OfferCollision(c, Head(pnNet[c]))
                  <=> /\ Head(pnNet[c]).type = "offer"
                      /\ (makingOfferRef[c] \/ pnPc[c].sig # "stable"))

\* C28 (stale candidates are never applied): a candidate that was in
\* iceCandidateBufferRef when a call of handleAnswer or handleIncomingOffer
\* began is never applied to the connection.
C28_StaleNeverApplied == sfHist.met \cap sfHist.applied = {}

\* C29 (negotiation-needed is skipped unless stable): the onnegotiationneeded
\* handler has gone on to create an offer only when the signaling state was
\* stable as it ran; in any other state it created no description.
C29_NegotiationOnlyWhenStable == sfHist.negotiationIn \in {"none", "stable"}

\* C30 (makingOffer brackets every local offer): while startConnection,
\* onnegotiationneeded or attemptIceRestart is between the start of
\* createOffer and the sending of its offer, makingOfferRef is true.
C30_MakingOfferBracketsOffer ==
    \A w \in SfCallers :
        sfOfferers[w] \in {"createOffer", "setLocal", "gather"} => sfMakingOfferRef

\* ------------------------------------------------------------------------
\* SpecRC: the counter of reconnection attempts
\* ------------------------------------------------------------------------

\* C31 (reconnectAttempts stays within 0..5): in every reachable state,
\* whatever the order of transport failures, failed ICE restarts, successful
\* connections and manual reconnects, reconnectAttemptsRef.current is between
\* 0 and maxReconnectAttempts.
C31_AttemptsWithinBounds ==
    reconnectAttemptsRef \in 0..maxReconnectAttempts

\* The counter is at its cap and a further call of reconnectWithBackoff has
\* been refused.
C31_Witness ==
    /\ reconnectAttemptsRef = maxReconnectAttempts
    /\ rcHist.terminal
    /\ rcTimers = 0

\* ------------------------------------------------------------------------
\* SpecTrack: SpecRC with the remote tracks of the SFU (pc.ontrack)
\* ------------------------------------------------------------------------

\* pc.ontrack (useWebRTC.ts:261-317): the answer of the SFU to the offer that
\* is out, or a later offer of the SFU, brings a remote track with its
\* stream; the handler stores the stream and sets CONNECTED.  It writes
\* neither reconnectAttemptsRef nor the error.
RcRemoteTrack ==
    /\ RcOnly
    /\ peerConnectionRef.exists
    /\ connectionState' = "connected"
    /\ UNCHANGED <<wsAtMount, error, reconnectAttemptsRef, connectionAttemptedRef,
                   localStream, peerConnectionRef, rcStarts, rcTimers, rcOrphans,
                   rcEffectDue, rcHist>>

RcTrackNext ==
    \/ RcNext
    \/ RcRemoteTrack

SpecTrack == RcInit /\ [][RcTrackNext]_vars

\* C32 (connected resets the attempts): whenever connectionState changes to
\* connected, through the connection-state callback or through the arrival
\* of a remote track, reconnectAttemptsRef.current is 0 in the state that
\* follows.
C32_ConnectedResetsAttempts ==
    [][connectionState # "connected" /\ connectionState' = "connected"
          => reconnectAttemptsRef' = 0]_vars

\* ------------------------------------------------------------------------
\* SpecMedia: enableVideo called twice
\* ------------------------------------------------------------------------

\* C33 (enableVideo is a no-op when video is enabled): in every reachable
\* state the local stream holds at most one video track and the connection
\* has at most one video sender, also when enableVideo is called again before
\* an earlier call has completed.
C33_AtMostOneVideoTrack ==
    /\ mdTracks.video <= 1
    /\ mdPc.videoSenders <= 1

\* ------------------------------------------------------------------------
\* SpecWsDispatch: SpecWs with callbacks that unsubscribe or throw while an
\* event is dispatched
\* ------------------------------------------------------------------------

\* try { cb(message) } catch (error) { console.error(...) }
\* (unnamed/part_014:111-115): the exception of a callback is caught.
Caught == TRUE

\* this.messageCallbacks.forEach(cb => ...) (unnamed/part_014:110-116) from
\* index k on, counted from 1.  forEach reads the length once, before the
\* first call (len), and visits the indices 1..len that the array still has
\* when it comes to them.  The callback a, when it is called, calls the
\* unsubscribe function of registration r, which splices the array
\* (unnamed/part_014:120-124); the callback thrower throws.  The result is
\* the array after the loop and the callbacks invoked, in order.
RECURSIVE ForEach(_, _, _, _, _, _, _)
ForEach(callbacks, k, len, invoked, a, r, thrower) ==
    IF k > len
    THEN [callbacks |-> callbacks, invoked |-> invoked]
    ELSE IF k > Len(callbacks)
    THEN ForEach(callbacks, k + 1, len, invoked, a, r, thrower)
    ELSE LET cb == callbacks[k]
             after == IF cb = a
                      THEN SpliceFound(callbacks, IndexOf(callbacks, r))
                      ELSE callbacks
         IN  IF cb = thrower /\ ~Caught
             THEN [callbacks |-> after, invoked |-> Append(invoked, cb)]
             ELSE ForEach(after, k + 1, len, Append(invoked, cb), a, r, thrower)

\* The socket gets an event of the server while the callback of registration
\* a unsubscribes registration r (itself or another one) when it is called
\* and the callback thrower throws (0: none does): the catch-all listener
\* runs its forEach (unnamed/part_014:101-117), and the unsubscribe function
\* removes the listener when it leaves the array empty
\* (unnamed/part_014:126-130).
WcEventUnsubscribing(a, r, thrower) ==
    /\ WcOnly
    /\ wcSocketAny > 0
    /\ IndexOf(messageCallbacks, a) > 0
    /\ r \in 1..Len(wcRegistered)
    /\ wcRegistered[r] = "message"
    /\ LET done == ForEach(messageCallbacks, 1, Len(messageCallbacks), <<>>, a, r, thrower)
           remove == done.callbacks = <<>> /\ onAnyListener
       IN  /\ messageCallbacks' = done.callbacks
           /\ wcInvoked' = {done.invoked[i] : i \in 1..Len(done.invoked)}
           /\ onAnyListener' = IF remove THEN FALSE ELSE onAnyListener
           /\ wcSocketAny' = IF remove THEN wcSocketAny - 1 ELSE wcSocketAny
    /\ wcUnsubscribed' = wcUnsubscribed \cup {r}
    /\ wcLate' = (wcLate \/ wcInvoked' \cap wcUnsubscribed # {})
    /\ UNCHANGED <<disconnectCallbacks, wcRegistered>>

WcDispatchNext ==
    \/ WcNext
    \/ \E a \in 1..MaxCallbacks, r \in 1..MaxCallbacks, thrower \in 0..MaxCallbacks :
          WcEventUnsubscribing(a, r, thrower)

SpecWsDispatch == WcInit /\ [][WcDispatchNext]_vars

\* C34 (exactly-once dispatch): an event invokes every callback that is
\* registered when it arrives, also when a callback unsubscribes itself or
\* another callback during the dispatch and when a callback throws.
C34_ExactlyOnceDispatch ==
    [][\A a \in 1..MaxCallbacks, r \in 1..MaxCallbacks, thrower \in 0..MaxCallbacks :
          WcEventUnsubscribing(a, r, thrower)
            => wcInvoked' = {messageCallbacks[i] : i \in 1..Len(messageCallbacks)}]_vars

\* ---------------------------------------------------------------------
\* Start-up order.  The browser's event loop runs every queued task, the
\* signaling server delivers every message it was sent, and each user
\* eventually presses the button that calls startConnection(): every step of
\* the negotiation that is enabled is eventually taken.
PnFairness ==
    \A c \in Clients :
        /\ WF_vars(PnStartConnection(c))
        /\ WF_vars(PnMediaGranted(c))
        /\ WF_vars(PnNegotiationNeeded(c))
        /\ WF_vars(PnDeliver(c))
        /\ WF_vars(PnOfferCreated(c))
        /\ WF_vars(PnRemoteDescriptionSet(c))
        /\ WF_vars(PnAnswerCreated(c))
        /\ WF_vars(PnTransportConnected(c))

SpecStartup == PnInit /\ [][PnNext]_vars /\ PnFairness

\* The roster holds the two clients and nothing else.
PairInRoster == Len(users) = 2

\* getUserMedia was refused or the transport failed: the start-up did not
\* run its course.
PnStartupDisturbed == pnFailures > 0 \/ \E c \in Clients : pnError[c] # "none"

\* C35: when the two partners are both in the roster, each of them
\* eventually calls startConnection() and every signaling message that was
\* sent is delivered, the link eventually reaches connected on both sides
\* (unless media was refused or the transport failed), in whatever order the
\* two start-ups and the deliveries happen.
C35_StartupConnects ==
    PairInRoster
    => <>(PnStartupDisturbed \/ \A c \in Clients : isConnected[c])

\* ---------------------------------------------------------------------
\* One failure, one attempt.  SpecRC lets reconnectWithBackoff run only when
\* no timer of an earlier call is pending; SpecFailure adds the failing ICE
\* restart whose catch runs while the timer that the 'failed' handler has
\* set for the same failure is still pending.

\* An await of attemptIceRestart rejects while a backoff timer is pending;
\* its catch calls reconnectWithBackoff (useWebRTC.ts:201-205), which tests
\* the counter and nothing else (useWebRTC.ts:150-163).
RcIceRestartFailedPending ==
    /\ RcOnly
    /\ peerConnectionRef.exists
    /\ peerConnectionRef.restarting > 0
    /\ rcTimers = MaxInFlight
    /\ peerConnectionRef' = [peerConnectionRef EXCEPT !.restarting = @ - 1]
    /\ ReconnectWithBackoff(error, rcHist)
    /\ UNCHANGED <<wsAtMount, connectionAttemptedRef, localStream, rcStarts, rcOrphans,
                   rcEffectDue>>

RcFailureNext ==
    \/ RcNext
    \/ RcIceRestartFailedPending

SpecFailure == RcInit /\ [][RcFailureNext]_vars

\* C36: at most one backoff timer of reconnectWithBackoff is pending at any
\* time: the handlers that request a reconnection for one transport failure
\* (connection state 'failed', ICE state 'failed', a failing ICE restart)
\* consume one attempt and set one timer between them.
C36_OneTimerPending == rcTimers <= 1

\* ---------------------------------------------------------------------
\* Quiescence after stop.  SpecStop is SpecRC with stopConnection; the
\* history field stopped is true from the return of stopConnection to the
\* next call of startConnection() or reconnect() by the user.

\* stopConnection (useWebRTC.ts:675-683): cleanupConnection() closes the
\* connection, sets IDLE and stops the local stream (422-450).  It clears no
\* timer of reconnectWithBackoff and no 2 s timer, and a startConnection
\* that is waiting at an await goes on when the await settles.
RcUserStopConnection ==
    /\ RcOnly
    /\ CleanupConnection(FALSE, localStream)
    /\ rcHist' = [rcHist EXCEPT !.stopped = TRUE]
    /\ UNCHANGED <<wsAtMount, reconnectAttemptsRef, connectionAttemptedRef, rcStarts,
                   rcTimers>>

RcStopNext ==
    \/ RcNext
    \/ RcUserStopConnection

SpecStop == RcInit /\ [][RcStopNext]_vars

\* C37: from the return of stopConnection() to the next call of
\* startConnection() or reconnect(), no connection handle is created and no
\* offer is sent, whatever timer or awaited step was pending at the stop.
C37_QuiescentAfterStop == rcHist.stopped => ~peerConnectionRef.exists

\* ---------------------------------------------------------------------
\* SpecClose: SpecMesh with the 'close' event of a destroyed link as a step
\* of its own.  peer.destroy() does not call the 'close' handler: SimplePeer
\* emits the event from a microtask, which runs when the task that called
\* destroy() has returned and before any other task (an effect, a message,
\* a resolved getUserMedia, an event of another link) starts.

\* A stopConnection that leaves the local stream in the ref.
StreamKeptAfterStop(stream) == stream

\* localStreamRef.current after stopConnection: the tracks are stopped and
\* the ref is set to null (useWebRTC-P2P.ts:821-825).
StreamAfterStop(stream) == FALSE

\* No microtask is due: the event loop starts the next task.
NoCloseDue == msClosing = {}

\* The 'close' handler that createPeer attached to a link to u, run for a
\* link that was destroyed (useWebRTC-P2P.ts:663-680).  It deletes by user
\* id whatever entry peersRef and remoteStreams hold for u.
ClCloseEvent(u) ==
    /\ u \in msClosing
    /\ msClosing' = msClosing \ {u}
    /\ msStaleClosed' = msStaleClosed \cup {u}
    /\ remoteStreams' = remoteStreams \ {u}
    /\ LET peers == [peersRef EXCEPT ![u] = "none"]
       IN  /\ peersRef' = peers
           /\ msConnectionState' = AfterClose(peers, msConnectionState)
    /\ msDirty' = TRUE
    /\ UNCHANGED <<msUsers, msRendered, localStreamRef, msError, msStarts, msGone, msJoined>>
    /\ ClOnly

\* MsRender with the 'close' events of the links that the roster effect
\* destroys left due (useWebRTC-P2P.ts:999-1040).
ClRender ==
    /\ NoCloseDue
    /\ msDirty
    /\ msRendered' = [users |-> msUsers, connectionState |-> msConnectionState]
    /\ IF localStreamRef
       THEN LET left == {u \in MsOthers : peersRef[u] # "none" /\ u \notin msUsers}
                kept == [u \in MsOthers |-> IF u \in left THEN "none" ELSE peersRef[u]]
            IN  /\ peersRef' = CreatePeers(kept, msUsers)
                /\ remoteStreams' = remoteStreams \ left
                /\ msClosing' = left
                /\ msDirty' = (left # {})
                /\ msGone' = msGone \cup {u \in left : peersRef[u] = "connected"}
       ELSE /\ msDirty' = FALSE
            /\ UNCHANGED <<peersRef, remoteStreams, msGone, msClosing>>
    /\ msJoined' = msJoined \ {v \in MsOthers : peersRef[v] = "none" /\ peersRef'[v] # "none"}
    /\ UNCHANGED <<msUsers, localStreamRef, msConnectionState, msError, msStarts,
                   msStaleClosed>>
    /\ ClOnly

\* stopConnection (useWebRTC-P2P.ts:807-831): every link is destroyed and
\* the registry cleared; the 'close' events are due when it returns.
ClStopConnection ==
    /\ NoCloseDue
    /\ msClosing' = {u \in MsOthers : peersRef[u] # "none"}
    /\ peersRef' = [u \in MsOthers |-> "none"]
    /\ localStreamRef' = StreamAfterStop(localStreamRef)
    /\ remoteStreams' = {}
    /\ msConnectionState' = "idle"
    /\ msError' = "none"
    /\ msDirty' = TRUE
    /\ UNCHANGED <<msUsers, msRendered, msStarts, msGone, msJoined, msStaleClosed>>
    /\ ClOnly

\* reconnect (useWebRTC-P2P.ts:836-840): stopConnection() and, in the same
\* task, startConnection() up to its await (698-722), or all of it when a
\* local stream is in the ref (723-752).
ClReconnect ==
    /\ NoCloseDue
    /\ msClosing' = {u \in MsOthers : peersRef[u] # "none"}
    /\ localStreamRef' = StreamAfterStop(localStreamRef)
    /\ remoteStreams' = {}
    /\ msError' = "none"
    /\ msDirty' = TRUE
    /\ IF msRendered.users = {}
       THEN /\ msConnectionState' = "idle"
            /\ peersRef' = [u \in MsOthers |-> "none"]
            /\ UNCHANGED msStarts
       ELSE /\ msConnectionState' = "connecting"
            /\ IF StreamAfterStop(localStreamRef)
               THEN /\ peersRef' = CreatePeers([u \in MsOthers |-> "none"], msRendered.users)
                    /\ UNCHANGED msStarts
               ELSE /\ Len(msStarts) < MaxStarts
                    /\ msStarts' = Append(msStarts, msRendered.users)
                    /\ peersRef' = [u \in MsOthers |-> "none"]
    /\ msJoined' = msJoined \ {v \in MsOthers : peersRef'[v] # "none"}
    /\ UNCHANGED <<msUsers, msRendered, msGone, msStaleClosed>>
    /\ ClOnly

\* The tasks of SpecMesh that destroy no link start when no 'close' is due.
ClTask ==
    /\ NoCloseDue
    /\ \/ \E u \in MsOthers : MsUserJoins(u)
       \/ \E u \in MsOthers : MsUserLeaves(u)
       \/ MsStartConnection
       \/ \E i \in 1..MaxStarts : MsMediaGranted(i)
       \/ \E i \in 1..MaxStarts : MsMediaDenied(i)
       \/ \E u \in MsOthers : MsSignalArrives(u)
       \/ \E u \in MsOthers : MsPeerStream(u)
       \/ \E u \in MsOthers : MsPeerConnect(u)
       \/ \E u \in MsOthers, failed \in BOOLEAN : MsPeerClosed(u, failed)

ClNext ==
    \/ ClTask
    \/ ClRender
    \/ ClStopConnection
    \/ ClReconnect
    \/ \E u \in MsOthers : ClCloseEvent(u)

SpecClose == MsInit /\ [][ClNext]_vars

\* C38: when the 'close' event of a destroyed link is due, the registry and
\* remoteStreams hold no entry for its user: the entries that the handler
\* deletes by user id are never those of a newer link to the same user.
C38_StaleCloseHarmless ==
    \A u \in msClosing : peersRef[u] = "none" /\ u \notin remoteStreams

\* The 'close' of a destroyed link to u has run, and the link that was made
\* for u after it is connected and has its stream.
C38_Witness ==
    \E u \in MsOthers :
        /\ u \in msStaleClosed
        /\ msClosing = {}
        /\ peersRef[u] = "connected"
        /\ u \in remoteStreams

\* ---------------------------------------------------------------------
\* SpecFlags: SpecMedia with the connection started again after a stop.

\* startConnection when no connection is open (useWebRTC.ts:456-531), taken
\* when nothing of an earlier connection is in flight.  The stream of the
\* last render is reused when its tracks are live (489-503); otherwise
\* initializeLocalStream gets a new audio-only stream (212-224), whose track
\* is enabled.  createPeerConnection adds the tracks of the stream
\* (250-258).  Neither sets hasVideoTrack or isAudioMuted.
MdStartConnection ==
    /\ mdPc.state # "open"
    /\ mdNegotiation = NoMdNegotiation
    /\ mdCamera = 0
    /\ mdNet = [toSfu |-> <<>>, toClient |-> <<>>]
    /\ LET reused == mdRendered.localStream /\ mdTracks.live
           tracks == IF reused
                     THEN mdTracks
                     ELSE [audio |-> TRUE, audioEnabled |-> TRUE, video |-> 0, live |-> TRUE]
       IN  /\ mdTracks' = tracks
           /\ mdPc' = [NoMdPc EXCEPT !.state = "open", !.audioSender = tracks.audio,
                                     !.videoSenders = tracks.video]
    /\ mdLocalStream' = TRUE
    /\ mdConnectionState' = "connecting"
    /\ mdError' = "none"
    /\ mdMakingOfferRef' = FALSE
    /\ UNCHANGED <<hasVideoTrack, isAudioMuted, mdRendered, mdNegotiation, mdCamera, mdNet,
                   mdHist>>
    /\ MdOnly

\* reconnect (useWebRTC.ts:688-694): cleanupConnection(), which is what
\* stopConnection does to the connection and the stream.
MdReconnect == MdStopConnection

MdFlagsNext ==
    \/ MdNext
    \/ MdStartConnection
    \/ MdReconnect

SpecFlags == MdInit /\ [][MdFlagsNext]_vars

\* C39: whenever a local stream exists, hasVideoTrack is true exactly when
\* the stream holds a video track and isAudioMuted is true exactly when the
\* audio track is disabled.
C39_FlagsMatchStream ==
    mdLocalStream =>
        /\ hasVideoTrack <=> mdTracks.video > 0
        /\ isAudioMuted <=> ~mdTracks.audioEnabled

\* C40: a tab that opened the room while the guard of another tab was
\* active, and whose guard has called its conflict callback, is not active:
\* the tab that holds the room keeps it.
C40_HolderKeepsRoom ==
    \A t \in Tabs : (tgLate[t] /\ tgConflicts[t] > 0) => ~isActive[t]

====
